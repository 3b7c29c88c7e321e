# A formal model of django-asklens

django-asklens answers questions about approved Django data. A question, or a
plan a client submits, becomes an untrusted query plan; a trusted facade
validates that plan for the current request, evaluates it, audits the attempt
and lets a host observe it. This directory models

* the control: who audits and who observes an attempt, when an observation may
  leave the process, how the audit table is redacted and purged while in use;
* the rules: which declarations a host may register, what a principal is
  offered, which plans are admitted, and what suggestions survive;
* the answers: the rows and numbers a plan yields over a database others write
  to, where they are cut, and which relative windows they are taken from.

TLC checks all of it on small instances; TLAPS proves the invariants of the
lifecycle, of the commit barrier with the contract it implements, of the
retention commands, and of a plan's way from catalog to prepared query, for
every instance.

All paths below are relative to `django_asklens/`.

## The system

| Part | State it keeps | Operations | Interacts with |
| --- | --- | --- | --- |
| Trusted facade, `execution/runner.py` | one `_ExecutionContext` per call, immutable | `execute_plan`: context, validation, preparation, compilation, evaluation, audit, emission | permission source, registry, audit, observability, host scope provider |
| Shared orchestration, `querying.py` | local variables, two ContextVars it sets | `execute_asklens_query_request`: help, plan, run, fall back, audit and observe what the facade did not | planner and provider, facade, audit, observability |
| Audit, `execution/audit.py` | ContextVar `_audit_content`; rows of `SemanticQueryRun` | resolve policy, build event, call the sink once | facade, orchestration, database or host sink |
| Observability, `observability.py` | ContextVars `_emitting`, `_defer_context_rejection`; the barrier of each waiting batch | emit a batch, register it with the open transactions, deliver it | facade, orchestration, Django's `on_commit`, host sink |
| Retention commands, `management/_audit_lifecycle.py` and the two commands | a cutoff, a batch size, a high-water mark, a count | preview, redact, purge, batch by batch | the audit table, each other, host writers |
| Permissions, `permissions.py` | none | read the principal's permissions, refuse a malformed set | host getter |
| Registry, `catalog/registry.py` | the registered resources | register, get, all, clear | everything that reads the catalog |
| Catalog resources, introspection, capabilities | immutable declarations | build, describe what a principal may see | planner, help, validation |
| Planning: `validation.py`, `schemas.py`, `temporal.py`, `planner.py`, `responses.py`, `intents.py`, `help.py`, `prompts.py`, `optimization.py` | none | parse, validate, normalise; ask the provider; route | catalog, providers |
| Compiler, `compiler/` | none | bind a plan to a scoped queryset, order, limit | Django ORM |
| Results, `results/` | none | serialise rows, presentation hints | facade |
| Providers, `llms/` | none | one request, no retry | network |
| API, admin, frontend, MCP, contracts | none of their own | adapt a surface to the orchestration or facade | orchestration |

Behaviour that is hard here, and hard to test:

* **Two layers share one attempt.** Facade and orchestration each may audit and
  observe; which one does is decided by attributes of the exception in flight
  and by a ContextVar. Every path through both must audit once, observe at most
  once, and in that order.
* **Policy is read several times.** Permissions are read before planning and
  again by the facade; the registry is read by validation and again by
  preparation. A provider may take `LLM_TIMEOUT_SECONDS` in between.
* **Host code runs inside an attempt**, in the permission getter, the scope
  provider, a custom audit sink and the observability sink, and may start another
  attempt, which inherits the ContextVars. (Providers are the package's own:
  `llms/factory.py` knows two names.)
* **Observations wait for transactions** of several connections, with
  savepoints, rollbacks, partial registration, a sink that runs host code, and
  manual transaction management.
* **Retention races with writers.** A batch selects keys and then acts on them;
  the table changes in between; runs fail between batches.
* **One question, several judges.** What a principal is offered, what a
  suggestion may name, and what validation accepts are decided by separate code
  over different views of the catalog, at different moments.
* **Joins change numbers.** Filters, selections, groups and metrics each add
  joins; validation must refuse the combinations in which one changes another.
* **Rows are cut twice**, by the plan's limit and by the MCP adapter, over an
  ordering the database is free to complete.
* **Clocks and calendars**: relative windows around month ends, clock changes,
  and the first year a date can hold.

`PROJECT.json` lists each of these as a hazard at its line, with the property
that would catch it going wrong.

## What would make each part correct

* Facade and orchestration: one audit per attempt and before any observation;
  one truthful lifecycle; no query on permissions read only before planning; no
  help for a denied principal; every attempt ends.
* Observability: nothing is told before every transaction open at emission has
  committed, nothing once one of them rolled back; batches whole, contiguous
  and not forgotten; the sink never inside a caller's block.
* Retention: a successful run missed no eligible row, touched no other, and
  reports exactly what it did.
* Catalog: a field that can be empty through any step of its path is declared
  nullable, and an enumeration means one value by each of its texts.
* Validation: a caller who lacks only rights learns nothing from a refusal; a
  validated plan validates again to itself; a query is bound only under the
  rights the facade read, and to the resource it was validated against.
* Guidance and help: exactly what is accepted is offered; no suggestion leaves
  the guidance its caller was given.
* Results: a metric is the aggregate of the rows it was registered for; equal
  tables give equal pages; no row is withheld without saying so; no declared
  column fails; relative windows agree with the calendar.

## Modules

    QueryLifecycle          one attempt, facade and orchestration
      MCQueryLifecycle      small instances
      QueryLifecycleProofs
    BatchPromise            what delivery of observation batches promises
    CommitBarrier           how observability.py does it; implements BatchPromise
      MCCommitBarrier
      CommitBarrierProofs
      SinkIsolationProofs   for transactions managed by atomic() only
    AuditLifecycle          the retention commands on the audit table
      MCAuditLifecycle
      AuditLifecycleProofs
    Catalog                 declarations, visibility, public catalog
    PlanRules               parsing, budgets, rules and normalisation of plans
                            (extends Catalog)
      PlanRulesProofs       lists, names and enumerations of a catalog; what
                            validation admits, keeps and refuses
    Guidance                capabilities and query help (extends PlanRules)
    PlanAdmission           a plan from catalog to prepared query
                            (extends Guidance)
      MCPlanAdmission
      PlanAdmissionProofs   (extends PlanRulesProofs)
    RelativeDates           calendar and clock arithmetic
      RelativeDatesProofs   what it computes
    ResultWindow            an accepted plan from compiler to payload
                            (extends PlanRules and RelativeDates)
      MCResultWindow
      ResultWindowProofs    (extends PlanRulesProofs and RelativeDatesProofs)

`QueryLifecycle` keeps plans and policies as small as the order of steps needs;
`PlanAdmission` opens up its steps `route`, `validate` and `prepare`,
`ResultWindow` its steps `compile` and `evaluate`. The modules `Catalog`,
`PlanRules`, `Guidance` and `RelativeDates` hold operators only: the code they
translate keeps no state.

### QueryLifecycle

An attempt is a member of `Calls`; `pc` is where it stands, one action per
step of the code:

| Label | Action | Code |
| --- | --- | --- |
| `entry` | `ResolveEntryPermissions` | `querying.py:90` |
| `route` | `RouteFails`, `RoutePlan`, `RouteHelp`, `ProviderEscapes` | `querying.py:97-159` with planner, router and provider |
| `context` | `ResolveFacadePermissions` | `runner.py:169-182` |
| `policy` | `ResolveAuditPolicy` | `runner.py:184-197` |
| `validate` | `Validate`, `ParsingEscapes` | `runner.py:210-250`, `planning/schemas.py:247-250` |
| `prepare`, `compile`, `evaluate` | `Prepare`, `Compile`, `Evaluate` | `runner.py:347-469` |
| `audit`, `emit` | `AuditExecution`, `EmitExecution` | `runner.py:225-238`, `267-280`, `293-307` |
| `rejected` | `HandleError` | `querying.py:183-216` |
| `external` | `AuditExternalRejection` | `querying.py:216-220`, `audit.py:162` |
| `observe` | `EmitExternalRejection` | `querying.py:221-241` |

`input` is what the attempt was called with: the surface (`direct` is
`execute_plan` called by host code, `provided` a submitted plan, `question` a
question), whether the question reads as a help question, whether the plan is
sound (passes every rule of validation that is not about visibility), and the
attempt whose host callback started it. `context` holds the two ContextVars as
inherited. `err` is the exception in flight, `tried` its two attempt markers.
`record` is what a sink kept, `events` and `emissions` the lifecycle and how
often it was handed to `_emit_observability_events`; `queried` says an
application query was evaluated, and `fresh` is a history variable.

The policy is one record: what the permission source answers (`granted`,
`revoked`, or `broken`: it raises), and how the resource is registered (`open`,
`restricted` to the permission, `absent`). `ChangePolicy` may happen between any
two steps of an attempt. `deployment` gives the audit mode, content retention,
whether the backend is live, and whether the clock is aware.

Two attempts of different threads share nothing but policy and settings, so
their interleaving adds nothing beyond `ChangePolicy`; what two attempts add is
nesting. That is why the properties about policy are checked with one attempt
and many changes, those about nesting with two.

Abstracted: the content of plans and results, payloads, durations, the choice
of sink (`sink is None` emits nothing; the model counts emissions handed over).
A sink failure is a call that keeps no record.

### CommitBarrier and BatchPromise

One thread, its call stack (`stack`), and Django's transactions as the emission
code uses them: nesting depth, savepoints, `needs_rollback`, `run_on_commit`,
manual mode. Those are external to the repository and marked so in the map.
`Emit` is `_emit_observability_events` with `_after_open_transactions`; its four
disjuncts are the suppressed batch, the direct delivery, the registered batch,
and the registration that raised after some connections (`cancelled`).
`RunCallback` is `connection_committed`, with `Deliver` when it is the last;
`SinkReturns` and `SinkRaises` are the loop of `deliver`. Between any two of
those steps host code, the sink's included, may open and leave blocks, commit,
roll back and emit again.

`BatchPromise` states the contract without counters or callbacks: a batch is
accepted under a set of open transactions, told event by event once that set
is empty, and void once one of them rolled back. `KeepsPromise` is the
refinement: `known`, `open`, `void` and `told` are computed from outcomes,
from the fate of the transactions open at emission, and from the sink calls.

Not modelled: `connection.close()` with callbacks pending, `set_autocommit(True)`
with uncommitted work, and asynchronous code running two of these stacks over
one connection, which Django forbids.

With manual transaction management two properties of the other runs do not
hold, and are not claimed: a host that ends manual mode inside a block of
another connection, or inside the sink, runs the pending callbacks there, so
`SinkOutsideBlocks` and `ContiguousDelivery` are checked and proved for
`atomic()` alone.
The documentation promises only transactions open at emission time.

### AuditLifecycle

The table is a set of primary keys with a creation time and a flag "question or
plan left". A run of a command counts, previews or executes; a batch is two
steps, the selection (`SelectBatch`) and the statement that applies the
predicate again (`ApplyBatch`), as under READ COMMITTED. Host writers insert
(the audit sink among them; a backfill may land under the high-water mark),
write content back, or delete, between any two steps. `Fail` is a database
error, a raising delete signal, or a killed process. `due`, `supply` and
`texts` are history variables for the properties.

The deletion of a purge batch is modelled as one statement. With delete-signal
listeners or relations Django fetches the rows and deletes them by key; a row
written between those two statements is outside the model.

### Catalog, PlanRules, Guidance

`Catalog` translates `catalog/resources.py` and `catalog/introspection.py`. The
host's models are the constant `Schema`. A private binding is resolved along
its path to a column, the edges it crosses and which of them are to-many.
`DeclarationAccepted` is the conjunction of the rules registration enforces;
one that is broken raises before anything is stored, so their order does not
matter and a declaration is accepted as a whole or leaves no trace. A permission
token is `[form, perm, kind, scope]`: exact, scoped to one object or all, or of
a form nobody understands.

`PlanRules` translates `planning/schemas.py`, `planning/validation.py` and
`planning/temporal.py`. Validation stops at the first failure and its order can
be told from outside, so failures keep their order and carry the name of their
exception, except that `PlanParseError` and `PlanValidationError` are one. The
name of a resource stands for its slug; the `InvalidResourceError` of a name that
leaves none is not modelled. A scalar is `[py, reads, value, spelling]`: its Python type, the
notation its text is in, the value it denotes, and which spelling of it it is.
That is enough to tell duplicates as written from duplicates after
normalisation, an alias from a canonical value, and `True` from `1`. The byte
budget counts units instead of characters.

`Guidance` translates `catalog/capabilities.py` and `planning/help.py`: the
capability of each resource for a principal, the scope inferred from tokens,
the examples in the order the code sorts them (`Alphabetical` orders names), the
plans synthesised for suggestions, and `ValidateHelp`. The
wording of a suggestion is two flags: safe to show, and crossing scopes.

### PlanAdmission

| Variable | Code |
| --- | --- |
| `resources` | `CatalogRegistry._resources` |
| `permissions` | what the permission source answers now |
| `races`, `cleared` | changes by others during the attempt; history |
| `attempt` | the request: what was shown, the plan, the rights it met |

`Register`, `Clear` and `ChangePermissions` are the host and other threads. `Ask`
builds the guidance under the rights of that moment; `ProvidePlan` and
`ProvideHelp` are the provider's answer and its validation under those rights,
but against the registry of now; `DeterministicHelp` is help without provider.
`Submit` brings a saved, edited or direct plan, `Click` a suggestion. `Execute`
reads the rights again and validates again, `Prepare` looks the resource up a
second time and calls the scope provider.

`GuidanceIsExact` is stated for the members within `MAX_JOINS` and as long as
nothing changed since the guidance was built. `PreparedUnderCurrentRights`
excepts a registry cleared in between: then the plan may meet another resource
of the same name, whose scope provider is called but which it was not validated
against. `registry_revision` is captured and never compared; `clear` is a public
operation, and nothing in the package itself calls it.

### RelativeDates and ResultWindow

An instant is a number of hours since year 1; clocks change and windows end on
full hours, so an hour is the smallest unit that can matter. A wall time that
occurs twice means its first occurrence (`fold=0`); one that is skipped means
the instant `zoneinfo` gives it.

The database holds rows of the resource's model (`roots`) and rows across one
to-many relationship (`children`). `InnerJoin`, `OuterJoin` and `Joined` are
external: they say what Django makes of the calls of the compiler. `Compile` is
`_compile_prepared_query`; `Fetches` is the set of pages the database may return,
every order of tied rows included; `ExecuteCompiled` cuts the page and checks
every cell against its column, both for the resource in `registered`; `Send` is the
row policy of the MCP adapter. `Write` replaces the database between any two steps
and `Reload` asks the same plan again, in a request with a clock of its own. A window
that leaves the calendar is refused as a plan, one whose first local date does not
exist fails compilation (`WindowCode`). An average is kept as the pair of its sum and its
count, and ordered as the fraction they make.

`MetricsAreTrue` compares each number with one computed from the tables alone.
It leaves out plans that

* mix metrics of the roots with metrics of the children: see the run
  `fanout_alters_metrics`;
* filter the to-many relationship twice: `compiler/filters.py` calls `filter()`
  once per filter, so Django joins twice and a count counts pairs. Nothing says
  what such a plan ought to count;
* negate a filter on it: `exclude()` speaks of roots, the count of children;
* group by a field that has the name of one of their metrics: see the known
  limits.

`ReloadsAgree` leaves out lists that select a field across the to-many
relationship: they repeat a root once per child, the identity that completes the
ordering is the root's, and the pages may differ. The clocks of the two requests may
differ, as long as the windows the filters compare with are the same.

## Runs

| Run | Instance | Shows |
| --- | --- | --- |
| `lifecycle_policy` | 1 attempt, 8 deployments, all 9 policies, 4 changes; 390,396 states | audit once and first, one truthful lifecycle, fresh authorisation, no help after a denial, inert help, final effects |
| `lifecycle_nested` | 2 attempts, concurrent or nested, custom sink, 4 policies, fair; 565,471 states | one audit, under the attempt's own question, and one lifecycle with inherited ContextVars; every attempt ends |
| `barrier_atomic` | 2 connections, 2 batches of 1 or 2 events, 3 blocks, stack of 4, fair | all safety properties, the refinement, every batch settles |
| `barrier_manual` | the same, 2 blocks, one connection in manual mode at will | the barrier still implements `BatchPromise` |
| `retention_race` | a redaction and a purge, 3 rows, every cutoff, batches of 2 (0 and 3 are refused), 1 write | nothing missed, only eligible rows, exact reports, bounded batches |
| `retention_overlap` | 2 redactions and a purge, 2 rows, batches of 1, 1 write, fair | exact reports among runs of the same rows; every run ends |
| `plan_admission` | 4 acceptable and 17 unacceptable declarations, 2 registered, 5 sets of rights, 38 plans, 6 answers with suggestions, 2 changes by others; 174,243 states | declarations hold, guidance is exact, refusals say nothing of rights, revalidation is stable, current rights, help within guidance |
| `result_window` | 4 databases, 4 instants in 2 zones, 2 acceptable and 2 unacceptable declarations, caps -1, 1 and 5, 1 write, 2 executions; 152,992 states | true metrics, equal pages, no silent cut, declared nulls, true windows |

Four runs are expected to be violated. Each states a sentence of the
documentation and finds the behaviour of the code that differs from it:

* `help_executes_nothing` -- a live question that reads as a help question, whose
  query was executed, failed and was audited, is answered with help.
* `provider_failure_observed` -- a provider connection that breaks while the body
  is read raises an exception nobody converts; no audit, no observation.
* `fanout_alters_metrics` -- the fan-out rule returns early when no *field*
  crosses a to-many relationship; a count of lines next to a sum over orders is
  admitted, and the sum counts an order once per line.
* `bad_suggestion` -- an unknown or forbidden member in one suggestion raises an
  exception of another class than the one the loop drops, and ends the help.

A fifth divergence is in the model without a run of its own. `parse_plan_payload`
handles `JSONDecodeError`; `json.loads` refuses an integer of more than 4300 digits
with a plain `ValueError` and deep nesting with `RecursionError`, and neither the
facade nor the orchestration has a handler for those. Such an attempt
(`ParsingEscapes`) ends unaudited and unobserved, contrary to "successful and
rejected data-query attempts reach the selected sink exactly once"
(`docs/production-checklist.md:121`). `AuditedOnce` excepts it by name, so that it
speaks of every other attempt.

Two more consequences of nesting are facts of the model for which the
documentation claims nothing: a direct facade call made by host code inside an
orchestrated one inherits its deferral, so a rejection of its context is observed
by nobody; and it is audited with the outer question. An orchestrated call made
there binds its own question, which `AuditedOnce` checks.

`barrier_manual` checks the refinement only: `CommittedBeforeDelivery`, `WholeBatches`
and `NothingForgotten` are checked under `atomic()` and proved for both modes.

### Bounds

* Four policy changes let each of the reads of an attempt (entry, planner,
  facade, preparation) meet a policy of its own.
* With two attempts the policy is one of four and stays: the three properties
  checked there are proved for every policy history.
* Two attempts: nesting is a chain, and each level inherits from the one above
  only; a second level shows both ContextVars set and unset.
* Two connections and two batches: the barrier compares each connection with
  the others one at a time; a second batch shows interleaving of deliveries.
  Three blocks allow both connections to be open with a savepoint in one.
* Three rows with batches of two give a full batch, a short batch and an empty
  one; one write falls between any two statements.
* Two changes by others are what it takes to clear a registry and register a
  name anew between two reads, or to revoke a right and grant another.
* The unacceptable declarations break one rule of registration each; the plans
  meet the rules of validation from both sides, with a limit at zero, inside and
  above the budget, and with filter values in their canonical and in another
  spelling. Of the two
  `Counts`, one cuts the examples short and one takes them all.
* Each database shows something the others lack: ties in every ordering, a null
  in a column and behind a join, a root without children, a root outside the
  caller's scope, an unregistered enumeration value, nothing at all. Three rows
  exceed a limit of two by one; the caps are negative, inside and above a page.
  The instants put a window's start at the end of a shorter month, in the
  hour a clock skips, in the one it repeats, before year 1, and in the first hours of
  it, which the zone five hours behind UTC has no date for.

Deadlock is checked in `plan_admission` and `result_window`, where an attempt that
is over gives way to the next. It is not in the other runs: there the bounds stop
the environment, and an attempt, a thread or a run that is over takes no further
step. Their liveness properties say what must happen before that.

### Fairness

Weak fairness is assumed of the code's own steps only: of each attempt (its
thread runs and host callbacks return), of leaving blocks, callbacks and sinks
(`Unwind`), of the statements of a run (`Work`). Nothing is assumed of hosts:
starting attempts, entering blocks, writing rows, changing policy. `EveryRunEnds`
depends on writers being finite (`MaxWrites`): the documentation says that later
eligible inserts can prolong a redaction.

## Proofs

### QueryLifecycleProofs

For any sets of calls, deployments and policies and any number of changes:

| Theorem | Property |
| --- | --- |
| `TypeCorrect` | `TypeOK` |
| `AuditHappensOnce` | `AuditedOnce` |
| `AuditComesFirst` | `AuditBeforeObservation` |
| `LifecycleIsOne` | `OneLifecycle` |
| `AuthorizationIsFresh` | `FreshAuthorization` |
| `RoutedHelpCostsNothing` | `RoutedHelpIsInert` |
| `DenialGetsNoHelp` | `NoHelpAfterDenial` |
| `EffectsStayFinal` | `EffectsAreFinal`, an action property |

Assumptions: `None` is not a call or a permission (`CallAssumption`), deployments
and policies come from their spaces, the bound is a natural number.

None of these is inductive: that the sink was called once at the end depends on
its not having been called before the label `audit`, and on the marker of the
error telling the truth afterwards. `Inv` is `TypeOK` together with `Ledger(c)`
for every attempt, which says for each label what an attempt standing there has
audited, observed, evaluated and marked. The proof has a lemma per action; the
lemma `Bystander` disposes of every attempt but the one that steps, nested ones
included, because an action changes the bookkeeping of one attempt only.
The question of a record (`Asked`) has an argument of its own: an orchestrated attempt
calls the sink only while its own question is bound (`AskedNext`).
`AuthorizationIsFresh` adds `Entitled(c)`, on top of `Inv`: once the facade has
begun, a permission it holds, or one it would read now, has been met since.

### CommitBarrierProofs

For any finite set of connections, any part of it under manual transaction
management, and any numbers of batches, blocks and call depth (`ConnAssumption`,
`BarrierBounds`):

| Theorem | Property |
| --- | --- |
| `TypeCorrect` | `TypeOK` |
| `DeliveryFollowsCommits` | `CommittedBeforeDelivery` |
| `BatchesAreWhole` | `WholeBatches` |
| `NoBatchIsForgotten` | `NothingForgotten` |
| `BarrierKeepsPromise` | `KeepsPromise`: every step is a step of `BatchPromise` or a stutter |

What makes the barrier right is an account of its callbacks, and `Inv` is that
account: `remaining[b]` is the number of connections that were open at the
emission of `b` and have not called back (`Account`); a callback that is
registered has not run and was not discarded, because the savepoints noted at
its registration still surround it (`Registered`, `Noted`); an undelivered batch
still has, for every connection it waits for, a callback registered or in the
list being run, or has lost it to a rollback (`Remembered`); no callback is in
two lists, and the list being run holds callbacks of committed transactions
only (`Stacked`). `Connection` ties Django's depth to the blocks on the stack.
The hard step is leaving a block (`LeaveStep`, `CommitTransactionStep`), which
settles transactions, discards callbacks and starts a list at once. The
refinement then needs one lemma per kind of step of the promise:
`PromiseSettles`, `PromiseEmits`, `PromiseTells`.

### SinkIsolationProofs

For the same constants with `ManualConns = {}`, where every transaction is managed
by `atomic()`:

| Theorem | Property |
| --- | --- |
| `SinkStaysOutside` | `SinkOutsideBlocks` |
| `DeliveryIsContiguous` | `ContiguousDelivery` |

The code has no line that keeps the sink out of a block: it follows from the
order in which blocks are left. The callbacks of a connection run when its
outermost block ends; a block that lies under that one on the stack is open then
and was open when the batch was registered, so the batch waits for it too and
its last callback is still to come. `Iso` says this for what is registered
(`Registrations`) and for the lists Django is running (`Lists`). It follows that
while the sink runs nothing is registered and no list above it has anything left
to run (`Alone`), and that the log ends with the call the sink is in (`Logged`).
`Iso` is inductive on top of `Inv` of `CommitBarrierProofs`. The hypothesis is
needed: with a connection in manual mode both properties fail.

### AuditLifecycleProofs

For any number of runs, rows and writes (`RunAssumption`, `NumberAssumption`):

| Theorem | Property |
| --- | --- |
| `TypeCorrect` | `TypeOK` |
| `BatchesAreBounded` | `BoundedBatches` |
| `SuccessMissesNothing` | `NothingMissed` |
| `OnlyEligibleRowsAreTouched` | `OnlyEligibleRows`, an action property |
| `ReportsAddUp` | `ReportsAreExact` |

`Inv` adds to `TypeOK` a part `Track(r)` for every run: the rows a run owes are
eligible for it and under its mark, so an empty selection means nothing is
owed. `BatchesAreBounded` rests on `FirstOfBounded`: the rows with fewer than `n`
smaller ones are at most `n`.

`ReportsAddUp` also assumes that the runs are finitely many
(`FinitelyManyRuns`), for it is about sums over them: a step changes the account
of at most one run, by the number of rows its statement changed, and the sum
changes by the same number.

### PlanRulesProofs

For any schema, declaration, plan, rights and limits. `SchemaAssumption` keeps
model names and columns apart from the model values, `LimitAssumption` says that
`MAX_ROWS`, the default limit and the byte budget are positive, without which
validation raises before it reads a plan (`get_positive_int`).

| Theorem | Says |
| --- | --- |
| `ValidationIsIdempotent` | an accepted plan is replaced by one that parses, asks for 1 to `MAX_ROWS` rows, and is accepted again unchanged |
| `AdmittedMembersAreVisible` | every field and metric an admitted plan names is visible to its caller |
| `OnlyDenied` | a plan that more rights would admit is refused, if at all, for want of a right |

They rest on one lemma per rule of validation, each of which says exactly when
the rule's code is `"ok"` (`FieldUseOk`, `MetricUseOk`, `FilterUseOk`,
`AdmissionOk`), and for `OnlyDenied` on a second one, which says that with fewer
rights it is `"ok"` or a denial (`FieldDenied`, `MembersDenied`). Normalisation is
stable because a canonical scalar is its own canonical form
(`CanonicalIsStable`), so the checks that follow it decide the same twice
(`NormalFilter`, `SameAdmission`). For this an enumeration must be unambiguous,
which registration sees to: `EnumsHold` is a hypothesis here and a part of the
invariant below.

Its first part is what all of this needs of lists and of `Catalog`: `Those` keeps the entries that
pass a test and the names they have, `Named` finds a member under its name, and
`FlattenSeq`, a recursive function of the library, joins what it is given
(`JoinedExists`, `Flattened`). The library's induction theorems take an operator as
a parameter and cannot be applied; such a function is shown to exist by taking a
least number at which it would not (`LeastExists`).

### PlanAdmissionProofs

For any finite or infinite sets of declarations, rights, plans and answers, any
number of resources and of changes by others. Assumed of the constants:
declarations hold lists, name each field once, by a name that has a place in the
alphabet, and compare enumerations with scalars (`DeclarationAssumption`); plans and
answers have the shape the parser gives them, however wrong their content
(`AnswerAssumption`); the bounds are numbers (`BoundAssumption`). The declarations need not be acceptable, nor the plans.

| Theorem | Property |
| --- | --- |
| `TypeCorrect` | `TypeOK` |
| `RegisteredAsDeclared` | `DeclarationsHold` |
| `GuidanceMatchesValidation` | `GuidanceIsExact` |
| `RightsOnlyDeny` | `OnlyRightsDiffer` |
| `RevalidatesToItself` | `RevalidationIsStable` |
| `PreparedWithCurrentRights` | `PreparedUnderCurrentRights` |
| `HelpWithinGuidance` | `HelpStaysInGuidance` |

`InductiveInvariant` is the theorem they follow from. Its parts, and why each is
needed:

* `RegistryHolds`: every registered resource was built from an accepted
  declaration, and no two share a name. Acceptance is what `RegistrableHolds`
  draws nullability and unambiguous enumerations from; unique names are why
  looking a name up again finds the resource validation met.
* `PhasesHold`: the shape of the attempt, and what each phase has not done yet.
* `ValidatedHolds`: with which rights and against which resource a plan was
  validated, that this would still succeed and change nothing, and that its name
  still leads there unless the registry was cleared. It has to survive `Register`,
  `Clear` and `ChangePermissions`, which is why it speaks of the rights and the
  resource remembered and not of those current.
* `RefusedHolds`: the code of a refusal is the one validation gave to the plan the
  attempt still holds, so `OnlyDenied` applies to it.
* `UndisturbedHolds`: while nobody interfered, the guidance is that of the registry,
  and every plan shown as help validates to itself.
* `GuidanceHolds`: names in guidance are unique, so a plan that passed
  `PlanUsesCapability` names members of the one capability its resource has.

Ten lemmas, one per action (`AskKeepsInv`, `ProvideHelpKeepsInv`, ...), show that it
is kept. The long ones are those of help: that a plan synthesised from a
suggestion has the shape of a plan (`SuggestedPlanIsPlan`), and that the
examples made without a provider stay out of a single scope's dimension
(`ExamplesHold`, `ExamplePlanReferences`).

### RelativeDatesProofs

For any clocks that satisfy `ClocksAssumption`, any instant and amount. The calendar
needs no assumption.

| Theorem | Says |
| --- | --- |
| `MonthsSubtracted` | `subtract_months` goes back the months asked for and at least 28 days for them, keeps the time of day, and keeps the day or takes the last of a shorter month |
| `BucketsHold` | a bucket is the first day of the week, month, quarter or year of a day, and its own bucket |
| `WallResolved` | a wall time means the first instant at which the clock shows it; where it never does, an instant of the same day one to three hours later on the clock |

The calendar counts every day once: the number of a date is the date's alone
(`DatesOrder`, `DateAgain`), and each day has one (`DateFound`). `DaysBeforeMonth` is a
recursive function; `MonthTable` shows that the table of month starts satisfies its
equation and that nothing else does. A zone is a list of changes, and an instant lies
between two of them (`OffsetFound`, `BetweenOnce`). The local date of the next hour is
the same or the next one (`DayByDay`), so those of a window leave none out
(`DaysOfWindow`). `ClocksAssumption` is what this needs: offsets of less than a day, as
`datetime` requires; changes of at most three hours and two days apart; and that the
hours a change skips or repeats belong to one day. The time zone database has a few
entries that are not so, listed under the known limits.

### ResultWindowProofs

For any schema, declarations, plans, tables, clocks, caps and any number of writes
and executions. Assumed of the constants, beyond what `PlanRulesProofs` and
`RelativeDatesProofs` assume:

* `DeclarationAssumption`, `PlanAssumption`: declarations hold lists and name each
  field once, plans are parsed. Neither need be acceptable.
* `NullAssumption`: a null is no average.
* `DatabaseAssumption`: what the host's models promise of the tables. Every binding is
  in the rows it starts from, a null is only where a column or a step of its path
  admits one, no date precedes the first, identities are unique, and the tables are
  finite. Enumerations are not assumed to hold: a table may have values nobody
  registered.
* `InstantAssumption`: the clock of a request is past the first day of year 1, and
  registered zones have clocks.

| Theorem | Property |
| --- | --- |
| `TypeCorrect` | `TypeOK` |
| `RowsAccounted` | `NothingSilentlyMissing` |
| `ReloadsEqual` | `ReloadsAgree` |
| `NullsExpected` | `NullsAreDeclared` |
| `MetricsTrue` | `MetricsAreTrue` |
| `WindowsTrue` | `WindowsAgree` |

`IndInv` is the invariant they follow from (`InvHolds`); TLC checked it on the run's
instance first. None of the six is inductive: each relates what a client sees to
tables that may have been replaced since. So the invariant remembers where
everything comes from: the plan is an admitted one; the compiled query is `Compile` of
it for the request's clock; the rows and the cut are among the `Outcomes` of the
compiled query over the snapshot of the tables, and so were those of the earlier
execution over theirs, for some clock of its own (`EarlierRun`); the payload is
`McpPayload` of the rows; every window passed `WindowsCode`, so none left the range of
dates (`WindowsCodeTells`), and the amounts of relative filters survived normalisation
(`AmountsKept`). `Write` changes the tables and nothing of this.

The rest says what an outcome is:

* Pages. `FirstRows` adds one least row after another; that this recursive function
  exists and what it gives is shown by least counterexample (`FirstRowsArePages`).
  A page is shorter than its limit only when no row is left (`PageOfAll`).
* Orderings. An ordering ends in the identity of a root, or in every group key. Two
  rows it ties have the same sort keys, so a list that stays with the roots shows
  them alike (`ListSorted`), and groups are told apart (`GroupsSorted`). With that any
  two pages of the same rows are equal (`PagesAgree`).
* Cells. `AnswerShown` follows every cell back to the column of a table, a bucket or an
  aggregate and compares it with what registration declared of it; a null needs a step
  of its path that admits one (`NullDeclared`), which registration saw. What is left
  is an unregistered enumeration value.
* Metrics. Filters are stages, each a `filter()` on the rows of the one before
  (`NextStage`, `LastStage`). Those of the roots choose roots and those of the
  children choose children of chosen roots (`RootFilter`, `ChildFilter`). Where all
  metrics have one grain, the rows the query ranges over are the chosen roots
  (`RootsRanged`) or the chosen pairs (`PairsRanged`), each once, and an aggregate over
  them is the one computed from the tables (`MetricShown`). The exclusions of
  `MetricsAreTrue` are hypotheses of that and no others are.

The proof attempts corrected the model: a metric hides a group key of its name, as
the keys of a Python dictionary do; averages are ordered as numbers; and an aggregate
of no rows has one value where two cases of a `CASE` had overlapped.

### Only model-checked

* Liveness (`EveryAttemptEnds`, `EveryBatchSettles`, `EveryRunEnds`), which is out
  of the prover's reach, as is `ENABLED`.
* The four properties the code does not keep are refuted by TLC.

Every other property of a passing run is a theorem.

## Plan

Done: `QueryLifecycle`, `CommitBarrier` with `BatchPromise`, `AuditLifecycle`,
`Catalog`, `PlanRules`, `Guidance` with `PlanAdmission`, and `RelativeDates` with
`ResultWindow`, each with its runs and proofs.

Left, in this order:

1. An abstract retention specification that `AuditLifecycle` implements: a run
   removes eligible rows, in any order.
2. `AuditedTransaction`: the audit insert, the caller's transaction and the
   barrier together. A failed insert marks the caller's block for rollback, and
   an observation must not outlive a rolled-back audit row.
3. `RunDetail`: owner access, global permission and current content policy in
   `api/views.py`.

## Known limits of the code the model shows

These are choices of the code no document contradicts; no property claims
otherwise.

* Plans synthesised for suggestions ask for 50 rows (`SuggestionLimit`) whatever
  `MAX_ROWS` is; with a lower `MAX_ROWS` each of them is refused.
* Validation adds the default limit to a plan, which may lift it over
  `MAX_PLAN_BYTES` when it comes back; `RevalidationIsStable` excepts that.
* The duplicate check after normalisation compares spellings that are left: `[1,
  1.0]` on a float field equals its canonical form for Python and is kept as
  written, and equal instants written with different offsets stay different.
* The budgets and the rule for filter-only fields are checked before rights. A
  plan that breaks them is refused for everyone, which is all `OnlyRightsDiffer`
  asks; but the refusal of a caller without rights names that rule, and not the
  code an unknown member gets.
* The public catalog names the default date field whether or not its reader may
  see it.
* Nothing forbids a field and a metric of one resource to have the same name. In a
  plan that groups by the one and computes the other, `normalize_row` gives both
  that name, and the metric hides the group key (`PublicRow`).
* A date field is compared with the local dates of the first and the last instant of
  a window. Where clocks went back from shortly after midnight to the day before
  (Goose Bay until 2011), a window that ends in the repeated time leaves out the day
  that had begun; where a zone skipped a day (Apia in 2011), no instant has that
  date. `ClocksAssumption` leaves such changes out.
* A relative window that begins before the first date is refused as a plan
  (`dates.py:60-76`). One on a date field that begins in the first hours of year 1 in a
  zone behind UTC fails as a compilation error instead: `filters.py:92` converts its
  start outside that handler.
* Whether a suggestion names the scope dimension is asked of its `fields` only; a
  plan it brings may group by it. `HelpStaysInGuidance` claims this for help
  without a provider.

## Not modelled

* Prompt text and its token shortlists, JSON schemas and contracts, templates,
  migrations, the configuration report, scripts and workflows: text or
  declarations without behaviour of their own.
* The grammar of dates, times and timestamps, JSON decoding, labels, wording and
  phrase lists, number formats, presentation hints, payload layout: data no property
  is about.
* `api/views.py` beyond its call of the orchestration: run detail is the next
  module of the plan.
* The transport of the MCP server and of the language model clients.
* Django and the database beyond what the emission code, the retention commands
  and the compiler use of them.
* Several to-many relationships at once: `ResultWindow` has one, and the rules that
  keep several apart are translated in `PlanRules` and not checked against rows.

--------------------------- MODULE QueryLifecycle ---------------------------
(***************************************************************************)
(* One governed attempt of django-asklens: the shared orchestration        *)
(* (querying.py, execute_asklens_query_request) around the trusted facade  *)
(* (execution/runner.py, execute_plan), with its audit attempt             *)
(* (execution/audit.py) and its observation batch (observability.py).      *)
(*                                                                         *)
(* Attempts of different threads interleave freely; an attempt started by  *)
(* host code that another attempt is calling (permission getter, scope     *)
(* provider, custom audit sink, observability sink) runs to its end while  *)
(* the outer one waits.                                                    *)
(* The policy an attempt reads -- the principal's permissions, the         *)
(* resource's registration -- may change between any two of its steps.     *)
(***************************************************************************)
EXTENDS Naturals, Sequences

CONSTANTS
  Calls,        \* identities of attempts
  None,         \* "no value": no outer attempt, no question, no snapshot
  Deployments,  \* the settings under which the process may run
  Policies,     \* the policies an attempt may meet
  MaxChanges    \* bound on the number of policy changes

Permissions == {"granted", "revoked"}
PolicySpace == [perm : Permissions \cup {"broken"},
                catalog : {"open", "restricted", "absent"}]
DeploymentSpace == [audit : {"database", "custom", "disabled", "invalid"},
                    content : BOOLEAN, live : BOOLEAN, aware : BOOLEAN]
Surfaces == {"direct", "provided", "question"}
ErrorCodes == {"none", "parse", "plan", "denied", "unavailable", "scope",
               "binding", "compile", "execute", "provider", "foreign"}
Labels == {"idle", "entry", "route", "context", "policy", "validate",
           "prepare", "compile", "evaluate", "audit", "emit", "rejected",
           "external", "observe", "done"}
Answers == {"none", "query", "returned", "capabilities", "error", "raised"}
Lifecycles == {<<>>, <<"rejected">>, <<"accepted">>,
               <<"accepted", "succeeded">>, <<"accepted", "failed">>}

ASSUME CallAssumption == None \notin Calls \cup Permissions
ASSUME DeploymentAssumption == Deployments \subseteq DeploymentSpace
ASSUME PolicyAssumption == Policies \subseteq PolicySpace
ASSUME BoundAssumption == MaxChanges \in Nat

VARIABLES
  deployment,  \* settings.DJANGO_ASKLENS and USE_TZ, read anew by each step
  policy,      \* current permission source and resource registration
  changes,     \* number of policy changes so far (bounded by MaxChanges)
  pc,          \* where each attempt stands
  input,       \* what the attempt was called with
  context,     \* the two ContextVars as inherited from the calling context
  entry,       \* permissions read by the orchestration
  held,        \* permissions read by the facade for this execution
  err,         \* code of the exception in flight
  answer,      \* how the attempt ended for its caller
  tried,       \* the error's _audit_attempted and _observability_attempted
  sinkCalls,   \* calls of the audit sink made by this attempt
  record,      \* what a successful audit sink kept of the attempt
  events,      \* the lifecycle events of the attempt
  emissions,   \* batches handed to _emit_observability_events
  queried,     \* an application-data query was evaluated
  fresh        \* history: the resource was open to the principal at some
               \* moment since the facade began to resolve its context

env == <<deployment, policy, changes>>
snapshots == <<input, context, entry, held>>
audits == <<sinkCalls, record>>
vars == <<deployment, policy, changes, pc, input, context, entry, held, err,
          answer, tried, sinkCalls, record, events, emissions, queried, fresh>>

NoInput == [surface |-> "direct", help |-> FALSE, sound |-> FALSE,
            outer |-> None]
NoRecord == [status |-> "none", question |-> None]

-----------------------------------------------------------------------------
(* Vocabulary *)

\* validate_resource_permission after registry.get: an absent resource and one
\* the principal may not use are refused alike.
Visible(perm, catalog) ==
  \/ catalog = "open"
  \/ catalog = "restricted" /\ perm = "granted"

Orchestrated(c) == input[c].surface # "direct"
SinkUsable == deployment.audit \in {"database", "custom"}

Running(c) == pc[c] \notin {"idle", "done"}

\* An attempt is suspended while host code it called runs another attempt.
Free(c) == \A d \in Calls : input[d].outer = c => ~Running(d)

\* Mutant of At: a lock held across host code, which a nested attempt waits for.
AtHoldingLock(c, label) ==
  /\ pc[c] = label /\ Free(c)
  /\ input[c].outer # None => ~Running(input[c].outer)

At(c, label) == pc[c] = label /\ Free(c)
Goto(c, label) == pc' = [pc EXCEPT ![c] = label]

Fail(c, code, label) ==
  /\ err' = [err EXCEPT ![c] = code]
  /\ Goto(c, label)

Answer(c, kind) ==
  /\ answer' = [answer EXCEPT ![c] = kind]
  /\ Goto(c, "done")

\* Host code runs inside the permission getter, the scope provider, a custom
\* audit sink and the observability sink -- not inside planning, whose backends
\* are the two of the package (llms/factory.py).
InHostCode(c) ==
  /\ Free(c)
  /\ \/ pc[c] \in {"entry", "context", "prepare", "emit"}
     \/ pc[c] \in {"audit", "external"} /\ deployment.audit = "custom"
     \/ pc[c] = "observe" /\ ~tried[c].observe

\* Mutant of BoundQuestion: an inherited question is kept.
BoundQuestionInherited(c) ==
  IF Orchestrated(c) /\ context[c].question = None THEN c ELSE context[c].question

\* _audit_content as seen by code the attempt runs: bound by the orchestration
\* around planning, facade and external audit.
BoundQuestion(c) ==
  IF Orchestrated(c) /\ pc[c] \notin {"entry", "observe"}
  THEN c ELSE context[c].question

\* Mutant of Deferring: the facade observes the rejections it leaves to others.
DeferringNever(c) == FALSE

\* _defer_context_rejection: set only around the orchestration's facade call.
Deferring(c) ==
  \/ Orchestrated(c) /\ pc[c] \in {"context", "policy", "validate", "prepare",
                                    "compile", "evaluate", "audit", "emit"}
  \/ context[c].deferred

Succeeded(c) == err[c] = "none"

-----------------------------------------------------------------------------
(* Initial state and the environment *)

Init ==
  /\ deployment \in Deployments
  /\ policy \in Policies
  /\ changes = 0
  /\ pc = [c \in Calls |-> "idle"]
  /\ input = [c \in Calls |-> NoInput]
  /\ context = [c \in Calls |-> [question |-> None, deferred |-> FALSE]]
  /\ entry = [c \in Calls |-> None]
  /\ held = [c \in Calls |-> None]
  /\ err = [c \in Calls |-> "none"]
  /\ answer = [c \in Calls |-> "none"]
  /\ tried = [c \in Calls |-> [audit |-> FALSE, observe |-> FALSE]]
  /\ sinkCalls = [c \in Calls |-> 0]
  /\ record = [c \in Calls |-> NoRecord]
  /\ events = [c \in Calls |-> <<>>]
  /\ emissions = [c \in Calls |-> 0]
  /\ queried = [c \in Calls |-> FALSE]
  /\ fresh = [c \in Calls |-> FALSE]

\* The principal or the resource registration as a fresh reader finds them.
Entitling(p) == p.catalog = "open" \/ p.perm = "granted"

\* Host code grants or revokes a permission, breaks or repairs the permission
\* source, or re-registers the resource.
ChangePolicy ==
  /\ changes < MaxChanges
  /\ \E p \in Policies \ {policy} :
       /\ policy' = p
       /\ fresh' = [c \in Calls |-> fresh[c] \/ Entitling(p)]
  /\ changes' = changes + 1
  /\ UNCHANGED <<deployment, pc, snapshots, err, answer, tried, audits,
                 events, emissions, queried>>

Start(c, label, surface, help, sound, outer) ==
  /\ pc[c] = "idle"
  /\ outer # None => InHostCode(outer)
  /\ input' = [input EXCEPT ![c] = [surface |-> surface, help |-> help,
                                    sound |-> sound, outer |-> outer]]
  /\ context' = IF outer = None THEN context
                ELSE [context EXCEPT ![c] = [question |-> BoundQuestion(outer),
                                             deferred |-> Deferring(outer)]]
  /\ Goto(c, label)
  /\ UNCHANGED <<env, entry, held, err, answer, tried, audits, events,
                 emissions, queried>>

\* execute_asklens_query_request: a question, or a submitted plan.
Ask(c) ==
  \E surface \in {"provided", "question"}, help, sound \in BOOLEAN,
     outer \in (Calls \ {c}) \cup {None} :
       /\ Start(c, "entry", surface, help, sound, outer)
       /\ UNCHANGED fresh

\* execute_plan called directly by host code.
CallFacade(c) ==
  \E sound \in BOOLEAN, outer \in (Calls \ {c}) \cup {None} :
       /\ Start(c, "context", "direct", FALSE, sound, outer)
       /\ fresh' = [fresh EXCEPT ![c] = Entitling(policy)]

\* _enforce_debug_permission: a non-staff debug request ends before anything.
RefuseDebug(c) ==
  /\ pc[c] = "idle"
  /\ input' = [input EXCEPT ![c].surface = "question"]
  /\ Answer(c, "raised")
  /\ UNCHANGED <<env, context, entry, held, err, tried, audits, events,
                 emissions, queried, fresh>>

-----------------------------------------------------------------------------
(* The orchestration up to the facade *)

EnterFacade(c) ==
  /\ Goto(c, "context")
  /\ fresh' = [fresh EXCEPT ![c] = Entitling(policy)]

\* get_request_permissions: any exception of the source denies the request.
ResolveEntryPermissions(c) ==
  /\ At(c, "entry")
  /\ \/ /\ policy.perm = "broken"
        /\ Fail(c, "denied", "rejected")
        /\ UNCHANGED entry
     \/ /\ policy.perm # "broken"
        /\ entry' = [entry EXCEPT ![c] = policy.perm]
        /\ Goto(c, "route")
        /\ UNCHANGED err
  /\ UNCHANGED <<env, input, context, held, answer, tried, audits, events,
                 emissions, queried, fresh>>

RouteUnchanged == <<env, snapshots, tried, audits, events, emissions, queried>>

\* parse_presentation, a provider failure reported as an AskLensError, or the
\* planner's own validation refuses.
RouteFails(c) ==
  /\ At(c, "route")
  /\ \/ Fail(c, "parse", "rejected")
     \/ input[c].surface = "question" /\ Fail(c, "provider", "rejected")
     \/ /\ input[c].surface = "question" /\ ~input[c].sound
        /\ Fail(c, "plan", "rejected")
     \/ /\ input[c].surface = "question"
        /\ ~Visible(entry[c], policy.catalog)
        /\ Fail(c, "unavailable", "rejected")
  /\ UNCHANGED <<RouteUnchanged, answer, fresh>>

\* A submitted plan goes to the facade unread; a planned one was validated by
\* the planner against the permissions the orchestration read.
RoutePlan(c) ==
  /\ At(c, "route")
  /\ \/ input[c].surface = "provided"
     \/ /\ input[c].surface = "question"
        /\ input[c].sound /\ Visible(entry[c], policy.catalog)
        /\ deployment.live \/ ~input[c].help
  /\ EnterFacade(c)
  /\ UNCHANGED <<RouteUnchanged, err, answer>>

\* Mutant of RouteHelp: help is audited like a query.
RouteHelpAudited(c) ==
  /\ At(c, "route")
  /\ input[c].surface = "question"
  /\ deployment.live \/ input[c].help
  /\ sinkCalls' = [sinkCalls EXCEPT ![c] = @ + 1]
  /\ Answer(c, "capabilities")
  /\ UNCHANGED <<env, snapshots, tried, record, events, emissions, queried,
                 err, fresh>>

\* A live provider may answer any question with help; the dummy backend
\* routes help questions locally.
RouteHelp(c) ==
  /\ At(c, "route")
  /\ input[c].surface = "question"
  /\ deployment.live \/ input[c].help
  /\ Answer(c, "capabilities")
  /\ UNCHANGED <<RouteUnchanged, err, fresh>>

\* The provider's transport raises what send_json_request does not convert
\* (a connection reset while the body is read): nothing catches it.
ProviderEscapes(c) ==
  /\ At(c, "route")
  /\ input[c].surface = "question" /\ deployment.live
  /\ Fail(c, "provider", "done")
  /\ answer' = [answer EXCEPT ![c] = "raised"]
  /\ UNCHANGED <<RouteUnchanged, fresh>>

-----------------------------------------------------------------------------
(* The facade *)

\* execute_plan before a context exists: a direct call observes its own
\* rejection, under the orchestration the observation is left to it.
RejectContext(c, code) ==
  /\ IF Deferring(c)
     THEN UNCHANGED <<tried, events, emissions>>
     ELSE /\ tried' = [tried EXCEPT ![c].observe = TRUE]
          /\ events' = [events EXCEPT ![c] = <<"rejected">>]
          /\ emissions' = [emissions EXCEPT ![c] = @ + 1]
  /\ IF Orchestrated(c)
     THEN Fail(c, code, "rejected") /\ UNCHANGED answer
     ELSE /\ Fail(c, code, "done")
          /\ answer' = [answer EXCEPT ![c] = "raised"]

\* Mutant of Current: the permissions the orchestration read are passed on.
CurrentAtEntry(c) == IF entry[c] # None THEN entry[c] ELSE policy.perm

\* The facade asks the permission source again.
Current(c) == policy.perm

\* The request, the clock and the permissions of this execution.
ResolveFacadePermissions(c) ==
  /\ At(c, "context")
  /\ \/ /\ deployment.aware /\ policy.perm # "broken"
        /\ held' = [held EXCEPT ![c] = Current(c)]
        /\ Goto(c, "policy")
        /\ UNCHANGED <<err, answer, tried, events, emissions>>
     \/ /\ ~deployment.aware
        /\ RejectContext(c, "plan")
        /\ UNCHANGED held
     \/ /\ deployment.aware /\ policy.perm = "broken"
        /\ RejectContext(c, "denied")
        /\ UNCHANGED held
     \/ /\ ~Orchestrated(c)             \* execute_plan(plan, request=None)
        /\ RejectContext(c, "denied")
        /\ UNCHANGED held
  /\ UNCHANGED <<env, input, context, entry, audits, queried, fresh>>

ResolveAuditPolicy(c) ==
  /\ At(c, "policy")
  /\ IF deployment.audit = "invalid"
     THEN RejectContext(c, "binding")
     ELSE /\ Goto(c, "validate")
          /\ UNCHANGED <<err, answer, tried, events, emissions>>
  /\ UNCHANGED <<env, snapshots, audits, queried, fresh>>

FacadeUnchanged == <<env, snapshots, answer, tried, audits, emissions, fresh>>

\* Submitted text that json.loads refuses with another error than
\* JSONDecodeError (an integer of too many digits, nesting too deep): no handler
\* of facade or orchestration is for it.
ParsingEscapes(c) ==
  /\ At(c, "validate")
  /\ input[c].surface # "question" /\ ~input[c].sound
  /\ Fail(c, "foreign", "done")
  /\ answer' = [answer EXCEPT ![c] = "raised"]
  /\ UNCHANGED <<env, snapshots, tried, audits, events, emissions, queried,
                 fresh>>

Observe(c, event) == events' = [events EXCEPT ![c] = Append(@, event)]

\* _validate_untrusted_plan with the permissions held by this execution.
Validate(c) ==
  /\ At(c, "validate")
  /\ \/ /\ input[c].sound /\ Visible(held[c], policy.catalog)
        /\ Goto(c, "prepare")
        /\ Observe(c, "accepted")
        /\ UNCHANGED err
     \/ /\ ~Visible(held[c], policy.catalog)
        /\ Fail(c, "unavailable", "audit")
        /\ Observe(c, "rejected")
     \/ /\ ~input[c].sound
        /\ Fail(c, "plan", "audit")
        /\ Observe(c, "rejected")
  /\ UNCHANGED <<FacadeUnchanged, queried>>

\* Mutant of FailExecution: a failure is told as a rejection.
FailExecutionAsRejection(c, codes) ==
  /\ \E code \in codes : Fail(c, code, "audit")
  /\ Observe(c, "rejected")

FailExecution(c, codes) ==
  /\ \E code \in codes : Fail(c, code, "audit")
  /\ Observe(c, "failed")

\* _prepare_query_plan: the registry is read again and the scope provider runs.
Prepare(c) ==
  /\ At(c, "prepare")
  /\ \/ /\ policy.catalog # "absent"
        /\ Goto(c, "compile")
        /\ UNCHANGED <<err, events>>
     \/ policy.catalog # "absent" /\ FailExecution(c, {"scope", "denied"})
     \/ policy.catalog = "absent" /\ FailExecution(c, {"unavailable"})
  /\ UNCHANGED <<FacadeUnchanged, queried>>

Compile(c) ==
  /\ At(c, "compile")
  /\ \/ /\ Goto(c, "evaluate")
        /\ UNCHANGED <<err, events>>
     \/ FailExecution(c, {"binding", "compile"})
  /\ UNCHANGED <<FacadeUnchanged, queried>>

\* _execute_compiled_query: evaluation, and serialization as part of it.
Evaluate(c) ==
  /\ At(c, "evaluate")
  /\ queried' = [queried EXCEPT ![c] = TRUE]
  /\ \/ /\ Goto(c, "audit")
        /\ Observe(c, "succeeded")
        /\ UNCHANGED err
     \/ FailExecution(c, {"execute"})
  /\ UNCHANGED FacadeUnchanged

\* _emit_audit_event: at most one call of the sink, whose failure is swallowed.
CallSink(c, status) ==
  IF ~SinkUsable
  THEN UNCHANGED audits
  ELSE /\ sinkCalls' = [sinkCalls EXCEPT ![c] = @ + 1]
       /\ \/ UNCHANGED record
          \/ record' = [record EXCEPT ![c] =
               [status |-> status,
                question |-> IF deployment.content THEN BoundQuestion(c)
                             ELSE None]]

AuditExecution(c) ==
  /\ At(c, "audit")
  /\ CallSink(c, IF Succeeded(c) THEN "success" ELSE "failed")
  /\ Goto(c, "emit")
  /\ UNCHANGED <<env, snapshots, err, answer, tried, events, emissions,
                 queried, fresh>>

\* _emit_observability_events, then the result or the public error.
EmitExecution(c) ==
  /\ At(c, "emit")
  /\ emissions' = [emissions EXCEPT ![c] = @ + 1]
  /\ IF Succeeded(c)
     THEN /\ Answer(c, IF Orchestrated(c) THEN "query" ELSE "returned")
          /\ UNCHANGED tried
     ELSE /\ tried' = [tried EXCEPT ![c] = [audit |-> TRUE, observe |-> TRUE]]
          /\ IF Orchestrated(c)
             THEN Goto(c, "rejected") /\ UNCHANGED answer
             ELSE Answer(c, "raised")
  /\ UNCHANGED <<env, snapshots, err, audits, events, queried, fresh>>

-----------------------------------------------------------------------------
(* The orchestration's handler of an AskLensError *)

\* Mutant of MayFallBack: any failure may be answered with help.
MayFallBackAlways(c) ==
  /\ entry[c] # None
  /\ input[c].surface = "question" /\ deployment.live /\ input[c].help

MayFallBack(c) ==
  /\ entry[c] # None
  /\ err[c] # "denied"
  /\ input[c].surface = "question" /\ deployment.live /\ input[c].help

\* Mutant of NextDuty: the attempt marker of the error is not looked at.
NextDutyUnmarked(c) == "external"

\* What _audit_attempted leaves to do.
NextDuty(c) == IF tried[c].audit THEN "observe" ELSE "external"

HandleError(c) ==
  /\ At(c, "rejected")
  /\ IF MayFallBack(c)
     THEN Answer(c, "capabilities")
     ELSE /\ Goto(c, NextDuty(c))
          /\ UNCHANGED answer
  /\ UNCHANGED <<env, snapshots, err, tried, audits, events, emissions,
                 queried, fresh>>

\* _audit_external_rejection: an unusable audit configuration is skipped.
AuditExternalRejection(c) ==
  /\ At(c, "external")
  /\ CallSink(c, "failed")
  /\ Goto(c, "observe")
  /\ UNCHANGED <<env, snapshots, err, answer, tried, events, emissions,
                 queried, fresh>>

\* Mutant of Observed: the observation marker of the error is not looked at.
ObservedNever(c) == FALSE

\* _observability_attempted
Observed(c) == tried[c].observe

EmitExternalRejection(c) ==
  /\ At(c, "observe")
  /\ IF Observed(c)
     THEN UNCHANGED <<tried, events, emissions>>
     ELSE /\ tried' = [tried EXCEPT ![c].observe = TRUE]
          /\ events' = [events EXCEPT ![c] = <<"rejected">>]
          /\ emissions' = [emissions EXCEPT ![c] = @ + 1]
  /\ Answer(c, "error")
  /\ UNCHANGED <<env, snapshots, err, audits, queried, fresh>>

-----------------------------------------------------------------------------
(* The specification *)

Orchestrate(c) ==
  \/ ResolveEntryPermissions(c) \/ RouteFails(c) \/ RoutePlan(c)
  \/ RouteHelp(c) \/ ProviderEscapes(c) \/ HandleError(c)
  \/ AuditExternalRejection(c) \/ EmitExternalRejection(c)

Facade(c) ==
  \/ ResolveFacadePermissions(c) \/ ResolveAuditPolicy(c)
  \/ ParsingEscapes(c) \/ Validate(c) \/ Prepare(c) \/ Compile(c)
  \/ Evaluate(c) \/ AuditExecution(c) \/ EmitExecution(c)

Step(c) == Orchestrate(c) \/ Facade(c)

Next ==
  \/ ChangePolicy
  \/ \E c \in Calls : Ask(c) \/ CallFacade(c) \/ RefuseDebug(c) \/ Step(c)

Spec == Init /\ [][Next]_vars

\* A thread that is running an attempt keeps running it, host callbacks return.
FairSpec == Spec /\ \A c \in Calls : WF_vars(Step(c))

-----------------------------------------------------------------------------
(* Properties *)

TypeOK ==
  /\ deployment \in DeploymentSpace
  /\ policy \in PolicySpace
  /\ changes \in 0..MaxChanges
  /\ pc \in [Calls -> Labels]
  /\ input \in [Calls -> [surface : Surfaces, help : BOOLEAN,
                          sound : BOOLEAN, outer : Calls \cup {None}]]
  /\ context \in [Calls -> [question : Calls \cup {None},
                            deferred : BOOLEAN]]
  /\ entry \in [Calls -> Permissions \cup {None}]
  /\ held \in [Calls -> Permissions \cup {None}]
  /\ err \in [Calls -> ErrorCodes]
  /\ answer \in [Calls -> Answers]
  /\ tried \in [Calls -> [audit : BOOLEAN, observe : BOOLEAN]]
  /\ sinkCalls \in [Calls -> Nat]
  /\ record \in [Calls -> [status : {"none", "success", "failed"},
                           question : Calls \cup {None}]]
  /\ events \in [Calls -> Lifecycles]
  /\ emissions \in [Calls -> Nat]
  /\ queried \in [Calls -> BOOLEAN]
  /\ fresh \in [Calls -> BOOLEAN]

\* "successful and rejected data-query attempts reach the selected sink exactly
\* once": however facade and orchestration share the work, no attempt calls the
\* sink twice, and one that ends with a result or an error response, or that the
\* facade accepted a context for, has called it once if it is usable -- save where
\* parsing raises what nobody catches. An orchestrated attempt is never recorded
\* under the question of the attempt it is nested in.
AuditedOnce ==
  \A c \in Calls :
    /\ sinkCalls[c] <= (IF SinkUsable THEN 1 ELSE 0)
    /\ SinkUsable /\ pc[c] = "done"
         /\ \/ answer[c] \in {"query", "returned", "error"}
            \/ held[c] # None /\ err[c] # "foreign"
       => sinkCalls[c] = 1
    /\ Orchestrated(c) => record[c].question \in {c, None}

\* The audit attempt is authoritative and comes first: whenever a batch has been
\* handed to observability, the attempt's audit is already over -- save the
\* rejection of a direct call that never had an audit context.
AuditBeforeObservation ==
  \A c \in Calls :
    emissions[c] > 0 /\ SinkUsable =>
      \/ sinkCalls[c] = 1
      \/ ~Orchestrated(c) /\ held[c] = None /\ answer[c] = "raised"

\* One lifecycle per attempt: at most one batch, and it tells the caller's story;
\* a rejected plan is never an executed one, and an audit record says the same.
OneLifecycle ==
  \A c \in Calls :
    /\ emissions[c] <= 1
    /\ events[c] = <<"rejected">> => ~queried[c] /\ record[c].status # "success"
    /\ emissions[c] = 1 /\ events[c] = <<"accepted", "succeeded">>
         <=> answer[c] \in {"query", "returned"}
    /\ record[c].status = "success" => Succeeded(c) /\ queried[c]

\* Provider planning may take long: a query runs only if, at some moment since
\* the facade began, the resource was open or the permission granted -- what the
\* orchestration read before planning is not enough.
FreshAuthorization ==
  \A c \in Calls : queried[c] => fresh[c]

\* "A failed resolver cannot authorize help using absent or stale policy": an
\* attempt denied by either permission read is not answered with the catalog.
NoHelpAfterDenial ==
  \A c \in Calls : err[c] = "denied" => answer[c] # "capabilities"

\* A help answer the provider or the router gave directly has cost nothing: no
\* query, no audit record, no observation.
RoutedHelpIsInert ==
  \A c \in Calls :
    answer[c] = "capabilities" /\ Succeeded(c) =>
      ~queried[c] /\ sinkCalls[c] = 0 /\ emissions[c] = 0

\* What an attempt has told the outside is never taken back or rewritten: its
\* sink calls and batches only grow, a kept record and a sent batch stay.
EffectsAreFinal ==
  [][\A c \in Calls :
       /\ sinkCalls'[c] >= sinkCalls[c] /\ emissions'[c] >= emissions[c]
       /\ emissions[c] > 0 => events'[c] = events[c]
       /\ record[c] # NoRecord => record'[c] = record[c]]_vars

\* Every attempt ends, nested or not, whatever the policy does meanwhile.
EveryAttemptEnds ==
  \A c \in Calls : Running(c) ~> pc[c] = "done"

-----------------------------------------------------------------------------
(* What the documentation says and the code does not do *)

\* "Confirm help/capabilities responses do not create query-run audit records
\* because they do not execute a data query."
HelpExecutesNothing ==
  \A c \in Calls :
    answer[c] = "capabilities" => ~queried[c] /\ record[c] = NoRecord

\* "Other final provider/orchestration failures that occur before the facade
\* likewise schedule one opaque plan.rejected after external audit."
ProviderFailuresAreObserved ==
  \A c \in Calls :
    err[c] = "provider" /\ pc[c] = "done" =>
      answer[c] = "capabilities" \/ emissions[c] = 1

=============================================================================

------------------------- MODULE QueryLifecycleProofs -------------------------
(***************************************************************************)
(* For any number of attempts, concurrent or nested, any deployments,      *)
(* policies and policy changes: type correctness, and the invariants on    *)
(* audit, observation and authorisation.  All rest on one inductive        *)
(* invariant, Inv: Ledger says, for every label, what an attempt standing  *)
(* there has audited, observed and evaluated so far.                       *)
(***************************************************************************)
EXTENDS QueryLifecycle, SequenceTheorems, TLAPS

\* Calls a usable sink has had once the audit of an attempt is over.
Audits == IF SinkUsable THEN 1 ELSE 0

Clean(c) ==
  /\ emissions[c] = 0
  /\ events[c] = <<>>
  /\ ~queried[c]
  /\ tried[c] = [audit |-> FALSE, observe |-> FALSE]

Unaudited(c) == sinkCalls[c] = 0 /\ record[c] = NoRecord

AuditedAs(c, statuses) == sinkCalls[c] = Audits /\ record[c].status \in statuses

\* The lifecycle of an execution tells how it ended.
ToldTruly(c) ==
  /\ err[c] = "none" => events[c] = <<"accepted", "succeeded">> /\ queried[c]
  /\ err[c] # "none" => \/ events[c] = <<"rejected">> /\ ~queried[c]
                        \/ events[c] = <<"accepted", "failed">>

\* The facade ended with an error, audited and observed.
FacadeFailed(c) ==
  /\ err[c] # "none"
  /\ ToldTruly(c)
  /\ AuditedAs(c, {"none", "failed"})
  /\ emissions[c] = 1
  /\ tried[c] = [audit |-> TRUE, observe |-> TRUE]

\* The attempt was rejected before the facade audited anything.
Rejected(c) ==
  /\ err[c] # "none"
  /\ Clean(c)
  /\ held[c] # None => ~SinkUsable

AtRest(c) ==
  /\ pc[c] = "idle" => Clean(c) /\ Unaudited(c) /\ err[c] = "none" /\ held[c] = None
  /\ pc[c] # "done" => answer[c] = "none"

InOrchestration(c) ==
  /\ pc[c] \in {"entry", "route", "rejected", "external", "observe"} => Orchestrated(c)
  /\ pc[c] \in {"entry", "route"} =>
       Clean(c) /\ Unaudited(c) /\ err[c] = "none" /\ held[c] = None
  /\ pc[c] = "rejected" => FacadeFailed(c) \/ (Rejected(c) /\ Unaudited(c))
  /\ pc[c] = "external" => Rejected(c) /\ Unaudited(c)
  /\ pc[c] = "observe" =>
       FacadeFailed(c) \/ (Rejected(c) /\ AuditedAs(c, {"none", "failed"}))

InFacade(c) ==
  /\ pc[c] \in {"context", "policy", "validate"} =>
       Clean(c) /\ Unaudited(c) /\ err[c] = "none"
  /\ pc[c] = "context" => held[c] = None
  /\ pc[c] \in {"policy", "validate", "prepare", "compile", "evaluate", "audit",
                "emit"} => held[c] # None
  /\ pc[c] \in {"prepare", "compile", "evaluate"} =>
       /\ Unaudited(c) /\ err[c] = "none" /\ emissions[c] = 0 /\ ~queried[c]
       /\ events[c] = <<"accepted">>
       /\ tried[c] = [audit |-> FALSE, observe |-> FALSE]
  /\ pc[c] \in {"audit", "emit"} =>
       /\ ToldTruly(c) /\ emissions[c] = 0
       /\ tried[c] = [audit |-> FALSE, observe |-> FALSE]
  /\ pc[c] = "audit" => Unaudited(c)
  /\ pc[c] = "emit" =>
       AuditedAs(c, IF err[c] = "none" THEN {"none", "success"}
                    ELSE {"none", "failed"})

Ended(c) ==
  /\ pc[c] = "done" /\ answer[c] \in {"query", "returned"} =>
       /\ err[c] = "none" /\ ToldTruly(c) /\ emissions[c] = 1
       /\ AuditedAs(c, {"none", "success"})
  /\ pc[c] = "done" /\ answer[c] = "capabilities" =>
       \/ Clean(c) /\ Unaudited(c) /\ err[c] = "none" /\ held[c] = None
       \/ FacadeFailed(c)
       \/ Rejected(c) /\ Unaudited(c)
  /\ pc[c] = "done" /\ answer[c] = "error" =>
       \/ FacadeFailed(c)
       \/ /\ err[c] # "none" /\ AuditedAs(c, {"none", "failed"})
          /\ emissions[c] = 1 /\ events[c] = <<"rejected">> /\ ~queried[c]
  /\ pc[c] = "done" /\ answer[c] = "raised" =>
       \/ FacadeFailed(c)
       \/ /\ Unaudited(c) /\ ~queried[c] /\ emissions[c] \in {0, 1}
          /\ events[c] \in {<<>>, <<"rejected">>}
          /\ held[c] # None =>
               ~SinkUsable \/ (err[c] = "foreign" /\ emissions[c] = 0)
          /\ emissions[c] = 1 => ~Orchestrated(c)
  /\ pc[c] = "done" => answer[c] # "none"

Ledger(c) == AtRest(c) /\ InOrchestration(c) /\ InFacade(c) /\ Ended(c)

Inv == TypeOK /\ \A c \in Calls : Ledger(c)

-----------------------------------------------------------------------------
(* Lemmas *)

\* What Append makes of a lifecycle of one event.
LEMMA AppendToSingle ==
  ASSUME NEW S, NEW x \in S, NEW y \in S
  PROVE  Append(<<x>>, y) = <<x, y>>
<1>1. <<x>> \in Seq(S) /\ <<x, y>> \in Seq(S)
  OBVIOUS
<1>2. Append(<<x>>, y) \in Seq(S)
  BY <1>1, AppendProperties
<1>3. Len(<<x, y>>) = 2 /\ Len(Append(<<x>>, y)) = 2
  OBVIOUS
<1>4. <<x, y>>[1] = Append(<<x>>, y)[1] /\ <<x, y>>[2] = Append(<<x>>, y)[2]
  OBVIOUS
<1>5. \A i \in 1..2 : i = 1 \/ i = 2
  OBVIOUS
<1>6. \A i \in 1..Len(<<x, y>>) : <<x, y>>[i] = Append(<<x>>, y)[i]
  BY <1>3, <1>4, <1>5, Zenon
<1>. QED  BY <1>1, <1>2, <1>3, <1>6, SeqEqual, Zenon

\* The lifecycles an execution writes, event by event.
LEMMA LifecycleGrowth ==
  /\ Append(<<>>, "accepted") = <<"accepted">>
  /\ Append(<<>>, "rejected") = <<"rejected">>
  /\ Append(<<"accepted">>, "succeeded") = <<"accepted", "succeeded">>
  /\ Append(<<"accepted">>, "failed") = <<"accepted", "failed">>
<1>. DEFINE S == {"accepted", "succeeded", "failed"}
<1>1. "accepted" \in S /\ "succeeded" \in S /\ "failed" \in S
  OBVIOUS
<1>2. /\ Append(<<"accepted">>, "succeeded") = <<"accepted", "succeeded">>
      /\ Append(<<"accepted">>, "failed") = <<"accepted", "failed">>
  BY <1>1, AppendToSingle, Zenon
<1>3. /\ Append(<<>>, "accepted") = <<"accepted">>
      /\ Append(<<>>, "rejected") = <<"rejected">>
  OBVIOUS
<1>. QED  BY <1>2, <1>3

LEMMA LifecyclesDiffer ==
  /\ <<>> # <<"accepted">> /\ <<>> # <<"rejected">>
  /\ <<>> # <<"accepted", "succeeded">> /\ <<>> # <<"accepted", "failed">>
  /\ <<"rejected">> # <<"accepted">>
  /\ <<"rejected">> # <<"accepted", "succeeded">>
  /\ <<"rejected">> # <<"accepted", "failed">>
  /\ <<"accepted">> # <<"accepted", "succeeded">>
  /\ <<"accepted">> # <<"accepted", "failed">>
  /\ <<"accepted", "failed">> # <<"accepted", "succeeded">>
OBVIOUS

\* Marking an attempt as observed keeps the marks well typed.
LEMMA MarkedType ==
  ASSUME NEW c \in Calls, tried \in [Calls -> [audit : BOOLEAN, observe : BOOLEAN]],
         tried' = [tried EXCEPT ![c].observe = TRUE]
  PROVE  tried' \in [Calls -> [audit : BOOLEAN, observe : BOOLEAN]]
OBVIOUS

\* An attempt none of whose own state moves keeps its ledger.
LEMMA Bystander ==
  ASSUME NEW d \in Calls, Ledger(d), UNCHANGED deployment,
         pc'[d] = pc[d], input'[d] = input[d], held'[d] = held[d],
         err'[d] = err[d], answer'[d] = answer[d], tried'[d] = tried[d],
         sinkCalls'[d] = sinkCalls[d], record'[d] = record[d],
         events'[d] = events[d], emissions'[d] = emissions[d],
         queried'[d] = queried[d]
  PROVE  Ledger(d)'
BY DEF Ledger, AtRest, InOrchestration, InFacade, Ended, Clean, Unaudited,
       AuditedAs, ToldTruly, FacadeFailed, Rejected, Audits, SinkUsable,
       Orchestrated

-----------------------------------------------------------------------------
(* Steps *)

LEMMA AskStep ==
  ASSUME NEW c \in Calls, Inv, Ask(c)
  PROVE  Inv'
<1>1. TypeOK'
  BY DEF Inv, Ask, Start, BoundQuestion, Deferring, Goto, Surfaces, env,
         snapshots, audits, TypeOK, Labels, ErrorCodes, Answers, Permissions
<1>2. Ledger(c)'
  BY DEF Inv, Ask, Start, Goto, env, snapshots, audits, TypeOK, Ledger, AtRest,
         InOrchestration, InFacade, Ended, Clean, Unaudited, AuditedAs,
         ToldTruly, FacadeFailed, Rejected, Audits, SinkUsable, Orchestrated
<1>3. ASSUME NEW d \in Calls, d # c  PROVE Ledger(d)'
  BY <1>3, Bystander DEF Inv, Ask, Start, Goto, env, snapshots, audits, TypeOK
<1>. QED  BY <1>1, <1>2, <1>3 DEF Inv

LEMMA CallFacadeStep ==
  ASSUME NEW c \in Calls, Inv, CallFacade(c)
  PROVE  Inv'
<1>1. TypeOK'
  <2>1. input' \in [Calls -> [surface : Surfaces, help : BOOLEAN,
                      sound : BOOLEAN, outer : Calls \cup {None}]]
    BY DEF Inv, TypeOK, CallFacade, Start, Goto, Surfaces
  <2>2. context' \in [Calls -> [question : Calls \cup {None}, deferred : BOOLEAN]]
    BY DEF Inv, TypeOK, CallFacade, Start, Goto, BoundQuestion, Deferring
  <2>3. pc' \in [Calls -> Labels]
    BY DEF Inv, TypeOK, CallFacade, Start, Goto, Labels
  <2>4. fresh' \in [Calls -> BOOLEAN]
    BY DEF Inv, TypeOK, CallFacade, Start, Goto, Entitling
  <2>5. UNCHANGED <<deployment, policy, changes, entry, held, err, answer,
                    tried, sinkCalls, record, events, emissions, queried>>
    BY DEF CallFacade, Start, Goto, env, snapshots, audits
  <2>. QED  BY <2>1, <2>2, <2>3, <2>4, <2>5 DEF Inv, TypeOK
<1>2. Ledger(c)'
  BY DEF Inv, CallFacade, Start, Goto, env, snapshots, audits, TypeOK, Ledger,
         AtRest, InOrchestration, InFacade, Ended, Clean, Unaudited, AuditedAs,
         ToldTruly, FacadeFailed, Rejected, Audits, SinkUsable, Orchestrated
<1>3. ASSUME NEW d \in Calls, d # c  PROVE Ledger(d)'
  BY <1>3, Bystander
     DEF Inv, CallFacade, Start, Goto, env, snapshots, audits, TypeOK
<1>. QED  BY <1>1, <1>2, <1>3 DEF Inv

LEMMA RefuseDebugStep ==
  ASSUME NEW c \in Calls, Inv, RefuseDebug(c)
  PROVE  Inv'
<1>1. TypeOK'
  <2>1. input' \in [Calls -> [surface : Surfaces, help : BOOLEAN,
                      sound : BOOLEAN, outer : Calls \cup {None}]]
    <3>1. "question" \in Surfaces
      BY DEF Surfaces
    <3>2. input \in [Calls -> [surface : Surfaces, help : BOOLEAN,
                      sound : BOOLEAN, outer : Calls \cup {None}]]
      BY DEF Inv, TypeOK
    <3>3. input' = [input EXCEPT ![c].surface = "question"]
      BY DEF RefuseDebug
    <3>. QED  BY <3>1, <3>2, <3>3
  <2>2. pc' \in [Calls -> Labels]
    BY DEF Inv, TypeOK, RefuseDebug, Answer, Goto, Labels
  <2>3. answer' \in [Calls -> Answers]
    BY DEF Inv, TypeOK, RefuseDebug, Answer, Goto, Answers
  <2>4. UNCHANGED <<deployment, policy, changes, context, entry, held, err,
                    tried, sinkCalls, record, events, emissions, queried,
                    fresh>>
    BY DEF RefuseDebug, Answer, Goto, env, snapshots, audits
  <2>. QED  BY <2>1, <2>2, <2>3, <2>4 DEF Inv, TypeOK
<1>2. Ledger(c)'
  BY DEF Inv, RefuseDebug, Answer, Goto, env, snapshots, audits, TypeOK, Ledger,
         AtRest, InOrchestration, InFacade, Ended, Clean, Unaudited, AuditedAs,
         ToldTruly, FacadeFailed, Rejected, Audits, SinkUsable, Orchestrated
<1>3. ASSUME NEW d \in Calls, d # c  PROVE Ledger(d)'
  BY <1>3, Bystander
     DEF Inv, RefuseDebug, Answer, Goto, env, snapshots, audits, TypeOK
<1>. QED  BY <1>1, <1>2, <1>3 DEF Inv

LEMMA ResolveEntryPermissionsStep ==
  ASSUME NEW c \in Calls, Inv, ResolveEntryPermissions(c)
  PROVE  Inv'
<1>1. TypeOK'
  BY DEF Inv, ResolveEntryPermissions, At, Fail, Goto, PolicySpace, env,
         snapshots, audits, TypeOK, Labels, ErrorCodes, Answers, Permissions
<1>2. Ledger(c)'
  BY DEF Inv, ResolveEntryPermissions, At, Fail, Goto, env, snapshots, audits,
         TypeOK, Ledger, AtRest, InOrchestration, InFacade, Ended, Clean,
         Unaudited, AuditedAs, ToldTruly, FacadeFailed, Rejected, Audits,
         SinkUsable, Orchestrated
<1>3. ASSUME NEW d \in Calls, d # c  PROVE Ledger(d)'
  BY <1>3, Bystander
     DEF Inv, ResolveEntryPermissions, Fail, Goto, env, snapshots, audits,
         TypeOK
<1>. QED  BY <1>1, <1>2, <1>3 DEF Inv

LEMMA RouteFailsStep ==
  ASSUME NEW c \in Calls, Inv, RouteFails(c)
  PROVE  Inv'
<1>1. TypeOK'
  BY DEF Inv, RouteFails, RouteUnchanged, At, Fail, Goto, env, snapshots,
         audits, TypeOK, Labels, ErrorCodes, Answers, Permissions
<1>2. Ledger(c)'
  BY DEF Inv, RouteFails, RouteUnchanged, At, Fail, Goto, env, snapshots,
         audits, TypeOK, Ledger, AtRest, InOrchestration, InFacade, Ended,
         Clean, Unaudited, AuditedAs, ToldTruly, FacadeFailed, Rejected, Audits,
         SinkUsable, Orchestrated
<1>3. ASSUME NEW d \in Calls, d # c  PROVE Ledger(d)'
  BY <1>3, Bystander
     DEF Inv, RouteFails, RouteUnchanged, Fail, Goto, env, snapshots, audits,
         TypeOK
<1>. QED  BY <1>1, <1>2, <1>3 DEF Inv

LEMMA RoutePlanStep ==
  ASSUME NEW c \in Calls, Inv, RoutePlan(c)
  PROVE  Inv'
<1>1. TypeOK'
  <2>1. pc' \in [Calls -> Labels]
    BY DEF Inv, TypeOK, RoutePlan, EnterFacade, Goto, Labels
  <2>2. fresh' \in [Calls -> BOOLEAN]
    BY DEF Inv, TypeOK, RoutePlan, EnterFacade, Goto, Entitling
  <2>3. UNCHANGED <<deployment, policy, changes, input, context, entry, held,
                    err, answer, tried, sinkCalls, record, events, emissions,
                    queried>>
    BY DEF RoutePlan, RouteUnchanged, EnterFacade, Goto, env, snapshots, audits
  <2>. QED  BY <2>1, <2>2, <2>3 DEF Inv, TypeOK
<1>2. Ledger(c)'
  BY DEF Inv, RoutePlan, RouteUnchanged, At, EnterFacade, Goto, env, snapshots,
         audits, TypeOK, Ledger, AtRest, InOrchestration, InFacade, Ended,
         Clean, Unaudited, AuditedAs, ToldTruly, FacadeFailed, Rejected, Audits,
         SinkUsable, Orchestrated
<1>3. ASSUME NEW d \in Calls, d # c  PROVE Ledger(d)'
  BY <1>3, Bystander
     DEF Inv, RoutePlan, RouteUnchanged, EnterFacade, Goto, env, snapshots,
         audits, TypeOK
<1>. QED  BY <1>1, <1>2, <1>3 DEF Inv

LEMMA RouteHelpStep ==
  ASSUME NEW c \in Calls, Inv, RouteHelp(c)
  PROVE  Inv'
<1>1. TypeOK'
  BY DEF Inv, RouteHelp, RouteUnchanged, At, Answer, Goto, env, snapshots,
         audits, TypeOK, Labels, ErrorCodes, Answers, Permissions
<1>2. Ledger(c)'
  BY DEF Inv, RouteHelp, RouteUnchanged, At, Answer, Goto, env, snapshots,
         audits, TypeOK, Ledger, AtRest, InOrchestration, InFacade, Ended,
         Clean, Unaudited, AuditedAs, ToldTruly, FacadeFailed, Rejected, Audits,
         SinkUsable, Orchestrated
<1>3. ASSUME NEW d \in Calls, d # c  PROVE Ledger(d)'
  BY <1>3, Bystander
     DEF Inv, RouteHelp, RouteUnchanged, Answer, Goto, env, snapshots, audits,
         TypeOK
<1>. QED  BY <1>1, <1>2, <1>3 DEF Inv

LEMMA ProviderEscapesStep ==
  ASSUME NEW c \in Calls, Inv, ProviderEscapes(c)
  PROVE  Inv'
<1>1. TypeOK'
  BY DEF Inv, ProviderEscapes, RouteUnchanged, At, Fail, Goto, env, snapshots,
         audits, TypeOK, Labels, ErrorCodes, Answers, Permissions
<1>2. Ledger(c)'
  BY DEF Inv, ProviderEscapes, RouteUnchanged, At, Fail, Goto, env, snapshots,
         audits, TypeOK, Ledger, AtRest, InOrchestration, InFacade, Ended,
         Clean, Unaudited, AuditedAs, ToldTruly, FacadeFailed, Rejected, Audits,
         SinkUsable, Orchestrated
<1>3. ASSUME NEW d \in Calls, d # c  PROVE Ledger(d)'
  BY <1>3, Bystander
     DEF Inv, ProviderEscapes, RouteUnchanged, Fail, Goto, env, snapshots,
         audits, TypeOK
<1>. QED  BY <1>1, <1>2, <1>3 DEF Inv

\* Both ends of RejectContext: a direct call that observes itself, and one that
\* leaves the observation to the orchestration around it.
LEMMA RejectContextStep ==
  ASSUME NEW c \in Calls, Inv, NEW code \in ErrorCodes \ {"none"},
         pc[c] \in {"context", "policy"}, pc[c] = "policy" => ~SinkUsable,
         RejectContext(c, code),
         UNCHANGED <<env, snapshots, audits, queried, fresh>>
  PROVE  Inv'
<1>. USE DEF RejectContext, Fail, Goto
<1>1. CASE Orchestrated(c)
  <2>1. Deferring(c)
    BY <1>1 DEF Deferring
  <2>2. /\ pc' = [pc EXCEPT ![c] = "rejected"] /\ err' = [err EXCEPT ![c] = code]
        /\ UNCHANGED <<answer, tried, events, emissions>>
    BY <1>1, <2>1
  <2>3. TypeOK'
    BY <2>2 DEF Inv, TypeOK, Labels, env, snapshots, audits
  <2>4. Ledger(c)'
    BY <1>1, <2>2
       DEF Inv, TypeOK, env, snapshots, audits, Ledger, AtRest, InOrchestration,
           InFacade, Ended, Clean, Unaudited, AuditedAs, ToldTruly,
           FacadeFailed, Rejected, Audits, SinkUsable, Orchestrated
  <2>5. ASSUME NEW d \in Calls, d # c  PROVE Ledger(d)'
    BY <2>2, <2>5, Bystander DEF Inv, TypeOK, env, snapshots, audits
  <2>. QED  BY <2>3, <2>4, <2>5 DEF Inv
<1>2. CASE ~Orchestrated(c) /\ Deferring(c)
  <2>1. /\ pc' = [pc EXCEPT ![c] = "done"] /\ err' = [err EXCEPT ![c] = code]
        /\ answer' = [answer EXCEPT ![c] = "raised"]
        /\ UNCHANGED <<tried, events, emissions>>
    BY <1>2
  <2>2. TypeOK'
    <3>1. "done" \in Labels /\ "raised" \in Answers
      BY DEF Labels, Answers
    <3>. QED  BY <2>1, <3>1 DEF Inv, TypeOK, env, snapshots, audits
  <2>3. Ledger(c)'
    BY <1>2, <2>1
       DEF Inv, TypeOK, env, snapshots, audits, Ledger, AtRest, InOrchestration,
           InFacade, Ended, Clean, Unaudited, AuditedAs, ToldTruly,
           FacadeFailed, Rejected, Audits, SinkUsable, Orchestrated
  <2>4. ASSUME NEW d \in Calls, d # c  PROVE Ledger(d)'
    BY <2>1, <2>4, Bystander DEF Inv, TypeOK, env, snapshots, audits
  <2>. QED  BY <2>2, <2>3, <2>4 DEF Inv
<1>3. CASE ~Orchestrated(c) /\ ~Deferring(c)
  <2>1. /\ pc' = [pc EXCEPT ![c] = "done"] /\ err' = [err EXCEPT ![c] = code]
        /\ answer' = [answer EXCEPT ![c] = "raised"]
        /\ tried' = [tried EXCEPT ![c].observe = TRUE]
        /\ events' = [events EXCEPT ![c] = <<"rejected">>]
        /\ emissions' = [emissions EXCEPT ![c] = @ + 1]
    BY <1>3
  <2>2. TypeOK'
    <3>1. /\ "done" \in Labels /\ "raised" \in Answers
          /\ <<"rejected">> \in Lifecycles
      BY DEF Labels, Answers, Lifecycles
    <3>2. tried' \in [Calls -> [audit : BOOLEAN, observe : BOOLEAN]]
      BY <2>1, MarkedType DEF Inv, TypeOK
    <3>. QED  BY <2>1, <3>1, <3>2 DEF Inv, TypeOK, env, snapshots, audits
  <2>3. Ledger(c)'
    BY <1>3, <2>1
       DEF Inv, TypeOK, env, snapshots, audits, Ledger, AtRest, InOrchestration,
           InFacade, Ended, Clean, Unaudited, AuditedAs, ToldTruly,
           FacadeFailed, Rejected, Audits, SinkUsable, Orchestrated
  <2>4. ASSUME NEW d \in Calls, d # c  PROVE Ledger(d)'
    BY <2>1, <2>4, Bystander DEF Inv, TypeOK, env, snapshots, audits
  <2>. QED  BY <2>2, <2>3, <2>4 DEF Inv
<1>. QED  BY <1>1, <1>2, <1>3

LEMMA ResolveFacadePermissionsStep ==
  ASSUME NEW c \in Calls, Inv, ResolveFacadePermissions(c)
  PROVE  Inv'
<1>1. pc[c] = "context"
  BY DEF ResolveFacadePermissions, At
<1>2. CASE /\ held' = [held EXCEPT ![c] = policy.perm] /\ policy.perm # "broken"
           /\ Goto(c, "policy")
           /\ UNCHANGED <<err, answer, tried, events, emissions>>
  <2>1. TypeOK'
    BY <1>2
       DEF Inv, TypeOK, ResolveFacadePermissions, Goto, Labels, PolicySpace,
           Permissions, env, audits
  <2>2. Ledger(c)'
    <3>1. policy.perm # None
      BY <1>2, CallAssumption DEF Inv, TypeOK, PolicySpace
    <3>. QED  BY <1>1, <1>2, <3>1 DEF Inv, TypeOK, ResolveFacadePermissions, Goto,
                PolicySpace, Permissions, env, audits, Ledger, AtRest,
                InOrchestration, InFacade, Ended, Clean,
         Unaudited, AuditedAs, ToldTruly, FacadeFailed, Rejected, Audits,
         SinkUsable, Orchestrated
  <2>3. ASSUME NEW d \in Calls, d # c  PROVE Ledger(d)'
    BY <1>2, <2>3, Bystander
       DEF Inv, TypeOK, ResolveFacadePermissions, Goto, env, audits
  <2>. QED  BY <2>1, <2>2, <2>3 DEF Inv
<1>3. CASE /\ RejectContext(c, "plan") \/ RejectContext(c, "denied")
           /\ UNCHANGED held
  BY <1>1, <1>3, RejectContextStep
     DEF ResolveFacadePermissions, ErrorCodes, snapshots
<1>. QED  BY <1>2, <1>3 DEF ResolveFacadePermissions, Current

LEMMA ResolveAuditPolicyStep ==
  ASSUME NEW c \in Calls, Inv, ResolveAuditPolicy(c)
  PROVE  Inv'
<1>1. pc[c] = "policy"
  BY DEF ResolveAuditPolicy, At
<1>2. CASE deployment.audit = "invalid"
  BY <1>1, <1>2, RejectContextStep
     DEF ResolveAuditPolicy, ErrorCodes, SinkUsable
<1>3. CASE deployment.audit # "invalid"
  <2>1. /\ pc' = [pc EXCEPT ![c] = "validate"]
        /\ UNCHANGED <<err, answer, tried, events, emissions>>
    BY <1>3 DEF ResolveAuditPolicy, Goto
  <2>2. TypeOK'
    BY <2>1 DEF Inv, TypeOK, ResolveAuditPolicy, Labels, env, snapshots, audits
  <2>3. Ledger(c)'
    BY <1>1, <2>1
       DEF Inv, TypeOK, ResolveAuditPolicy, env, snapshots, audits, Ledger,
           AtRest, InOrchestration, InFacade, Ended, Clean, Unaudited,
           AuditedAs, ToldTruly, FacadeFailed, Rejected, Audits, SinkUsable,
           Orchestrated
  <2>4. ASSUME NEW d \in Calls, d # c  PROVE Ledger(d)'
    BY <2>1, <2>4, Bystander
       DEF Inv, TypeOK, ResolveAuditPolicy, env, snapshots, audits
  <2>. QED  BY <2>2, <2>3, <2>4 DEF Inv
<1>. QED  BY <1>2, <1>3

\* A step of the execution: it moves on, or fails and goes to the audit, and
\* says so in the lifecycle.
LEMMA ExecutionStep ==
  ASSUME NEW c \in Calls, Inv, UNCHANGED FacadeUnchanged,
         NEW label \in Labels, NEW code \in ErrorCodes, NEW story \in Lifecycles,
         NEW ran \in BOOLEAN,
         pc' = [pc EXCEPT ![c] = label], err' = [err EXCEPT ![c] = code],
         events' = [events EXCEPT ![c] = story],
         queried' = [queried EXCEPT ![c] = ran],
         pc[c] \in {"validate", "prepare", "compile", "evaluate"},
         \/ /\ label \in {"prepare", "compile", "evaluate"}
            /\ code = "none" /\ story = <<"accepted">> /\ ~ran
         \/ /\ label = "audit" /\ code # "none"
            /\ story = <<"accepted", "failed">> \/ (story = <<"rejected">> /\ ~ran)
         \/ /\ label = "audit" /\ code = "none"
            /\ story = <<"accepted", "succeeded">> /\ ran
  PROVE  Inv'
<1>1. TypeOK'
  BY DEF Inv, TypeOK, FacadeUnchanged, env, snapshots, audits
<1>2. Ledger(c)'
  BY LifecyclesDiffer
     DEF Inv, TypeOK, FacadeUnchanged, env, snapshots, audits, Ledger, AtRest,
         InOrchestration, InFacade, Ended, Clean, Unaudited, AuditedAs,
         ToldTruly, FacadeFailed, Rejected, Audits, SinkUsable, Orchestrated
<1>3. ASSUME NEW d \in Calls, d # c  PROVE Ledger(d)'
  BY <1>3, Bystander DEF Inv, TypeOK, FacadeUnchanged, env, snapshots, audits
<1>. QED  BY <1>1, <1>2, <1>3 DEF Inv

\* A step of the execution that fails once the plan is accepted.
LEMMA FailedExecutionStep ==
  ASSUME NEW c \in Calls, Inv, UNCHANGED FacadeUnchanged,
         pc[c] \in {"prepare", "compile", "evaluate"}, events[c] = <<"accepted">>,
         NEW ran \in BOOLEAN, queried' = [queried EXCEPT ![c] = ran],
         NEW code \in ErrorCodes \ {"none"}, Fail(c, code, "audit"), Observe(c, "failed")
  PROVE  Inv'
<1>1. events' = [events EXCEPT ![c] = <<"accepted", "failed">>]
  BY LifecycleGrowth DEF Observe
<1>2. pc' = [pc EXCEPT ![c] = "audit"] /\ err' = [err EXCEPT ![c] = code]
  BY DEF Fail, Goto
<1>3. "audit" \in Labels /\ code \in ErrorCodes /\ code # "none"
      /\ <<"accepted", "failed">> \in Lifecycles
  BY DEF Labels, Lifecycles
<1>4. pc[c] \in {"validate", "prepare", "compile", "evaluate"}
  OBVIOUS
<1>. QED  BY <1>1, <1>2, <1>3, <1>4, ExecutionStep

LEMMA ParsingEscapesStep ==
  ASSUME NEW c \in Calls, Inv, ParsingEscapes(c)
  PROVE  Inv'
<1>1. TypeOK'
  BY DEF Inv, ParsingEscapes, At, Fail, Goto, env, snapshots, audits, TypeOK,
         Labels, ErrorCodes, Answers, Permissions
<1>2. Ledger(c)'
  BY DEF Inv, ParsingEscapes, At, Fail, Goto, env, snapshots, audits, TypeOK,
         Ledger, AtRest, InOrchestration, InFacade, Ended, Clean, Unaudited,
         AuditedAs, ToldTruly, FacadeFailed, Rejected, Audits, SinkUsable,
         Orchestrated
<1>3. ASSUME NEW d \in Calls, d # c  PROVE Ledger(d)'
  BY <1>3, Bystander
     DEF Inv, ParsingEscapes, Fail, Goto, env, snapshots, audits, TypeOK
<1>. QED  BY <1>1, <1>2, <1>3 DEF Inv

LEMMA ValidateStep ==
  ASSUME NEW c \in Calls, Inv, Validate(c)
  PROVE  Inv'
<1>1. /\ pc[c] = "validate" /\ UNCHANGED FacadeUnchanged /\ UNCHANGED queried
      /\ events[c] = <<>> /\ err[c] = "none" /\ ~queried[c]
  BY DEF Validate, At, Inv, Ledger, InFacade, Clean
<1>2. /\ queried' = [queried EXCEPT ![c] = FALSE]
      /\ err = [err EXCEPT ![c] = "none"]
  BY <1>1 DEF Inv, TypeOK
<1>3. CASE Goto(c, "prepare") /\ Observe(c, "accepted") /\ UNCHANGED err
  <2>1. events' = [events EXCEPT ![c] = <<"accepted">>]
    BY <1>1, <1>3, LifecycleGrowth DEF Observe
  <2>. QED  BY <1>1, <1>2, <1>3, <2>1, ExecutionStep
            DEF Goto, Labels, ErrorCodes, Lifecycles
<1>4. ASSUME NEW code \in {"unavailable", "plan"}, Fail(c, code, "audit"),
             Observe(c, "rejected")
      PROVE  Inv'
  <2>1. events' = [events EXCEPT ![c] = <<"rejected">>]
    BY <1>1, <1>4, LifecycleGrowth DEF Observe
  <2>. QED  BY <1>1, <1>2, <1>4, <2>1, ExecutionStep
            DEF Fail, Goto, Labels, ErrorCodes, Lifecycles
<1>. QED  BY <1>3, <1>4 DEF Validate

LEMMA PrepareStep ==
  ASSUME NEW c \in Calls, Inv, Prepare(c)
  PROVE  Inv'
<1>1. /\ pc[c] = "prepare" /\ UNCHANGED FacadeUnchanged
      /\ events[c] = <<"accepted">> /\ err[c] = "none" /\ ~queried[c]
  BY DEF Prepare, At, Inv, Ledger, InFacade
<1>2. /\ queried' = [queried EXCEPT ![c] = FALSE]
      /\ err = [err EXCEPT ![c] = "none"]
      /\ events = [events EXCEPT ![c] = <<"accepted">>]
  BY <1>1 DEF Inv, TypeOK, Prepare
<1>3. CASE Goto(c, "compile") /\ UNCHANGED <<err, events>>
  BY <1>1, <1>2, <1>3, ExecutionStep DEF Goto, Labels, ErrorCodes, Lifecycles
<1>4. ASSUME NEW code \in ErrorCodes \ {"none"}, Fail(c, code, "audit"),
             Observe(c, "failed")
      PROVE  Inv'
  BY <1>1, <1>2, <1>4, FailedExecutionStep
<1>. QED  BY <1>3, <1>4 DEF Prepare, FailExecution, ErrorCodes

LEMMA CompileStep ==
  ASSUME NEW c \in Calls, Inv, Compile(c)
  PROVE  Inv'
<1>1. /\ pc[c] = "compile" /\ UNCHANGED FacadeUnchanged
      /\ events[c] = <<"accepted">> /\ err[c] = "none" /\ ~queried[c]
  BY DEF Compile, At, Inv, Ledger, InFacade
<1>2. /\ queried' = [queried EXCEPT ![c] = FALSE]
      /\ err = [err EXCEPT ![c] = "none"]
      /\ events = [events EXCEPT ![c] = <<"accepted">>]
  BY <1>1 DEF Inv, TypeOK, Compile
<1>3. CASE Goto(c, "evaluate") /\ UNCHANGED <<err, events>>
  BY <1>1, <1>2, <1>3, ExecutionStep DEF Goto, Labels, ErrorCodes, Lifecycles
<1>4. ASSUME NEW code \in ErrorCodes \ {"none"}, Fail(c, code, "audit"),
             Observe(c, "failed")
      PROVE  Inv'
  BY <1>1, <1>2, <1>4, FailedExecutionStep
<1>. QED  BY <1>3, <1>4 DEF Compile, FailExecution, ErrorCodes

LEMMA EvaluateStep ==
  ASSUME NEW c \in Calls, Inv, Evaluate(c)
  PROVE  Inv'
<1>1. /\ pc[c] = "evaluate" /\ UNCHANGED FacadeUnchanged
      /\ events[c] = <<"accepted">> /\ err[c] = "none" /\ ~queried[c]
  BY DEF Evaluate, At, Inv, Ledger, InFacade
<1>2. /\ queried' = [queried EXCEPT ![c] = TRUE]
      /\ err = [err EXCEPT ![c] = "none"]
      /\ events = [events EXCEPT ![c] = <<"accepted">>]
  BY <1>1 DEF Inv, TypeOK, Evaluate
<1>3. CASE Goto(c, "audit") /\ Observe(c, "succeeded") /\ UNCHANGED err
  <2>1. events' = [events EXCEPT ![c] = <<"accepted", "succeeded">>]
    BY <1>1, <1>3, LifecycleGrowth DEF Observe
  <2>. QED  BY <1>1, <1>2, <1>3, <2>1, ExecutionStep
            DEF Goto, Labels, ErrorCodes, Lifecycles
<1>4. ASSUME NEW code \in ErrorCodes \ {"none"}, Fail(c, code, "audit"),
             Observe(c, "failed")
      PROVE  Inv'
  BY <1>1, <1>2, <1>4, FailedExecutionStep
<1>. QED  BY <1>3, <1>4 DEF Evaluate, FailExecution, ErrorCodes

\* A sink call is counted once, whatever becomes of its record.
LEMMA SinkEffect ==
  ASSUME NEW c \in Calls, TypeOK, NEW status \in {"success", "failed"},
         CallSink(c, status), Unaudited(c)
  PROVE  /\ sinkCalls' \in [Calls -> Nat]
         /\ record' \in [Calls -> [status : {"none", "success", "failed"},
                                   question : Calls \cup {None}]]
         /\ sinkCalls'[c] = Audits
         /\ record'[c].status \in {"none", status}
         /\ \A d \in Calls \ {c} :
              sinkCalls'[d] = sinkCalls[d] /\ record'[d] = record[d]
<1>. DEFINE kept == [status |-> status,
                     question |-> IF deployment.content THEN BoundQuestion(c)
                                  ELSE None]
<1>1. BoundQuestion(c) \in Calls \cup {None}
  BY DEF TypeOK, BoundQuestion
<1>2. kept \in [status : {"none", "success", "failed"},
                question : Calls \cup {None}] /\ kept.status = status
  BY <1>1
<1>. HIDE DEF kept
<1>3. CASE ~SinkUsable
  BY <1>3 DEF TypeOK, CallSink, audits, Unaudited, Audits, NoRecord
<1>4. CASE SinkUsable /\ UNCHANGED record
  <2>1. sinkCalls' = [sinkCalls EXCEPT ![c] = @ + 1]
    BY <1>4 DEF CallSink
  <2>. QED  BY <1>4, <2>1 DEF TypeOK, Unaudited, Audits, NoRecord
<1>5. CASE SinkUsable /\ record' = [record EXCEPT ![c] = kept]
  <2>1. sinkCalls' = [sinkCalls EXCEPT ![c] = @ + 1]
    BY <1>5 DEF CallSink
  <2>. QED  BY <1>2, <1>5, <2>1 DEF TypeOK, Unaudited, Audits
<1>. QED  BY <1>3, <1>4, <1>5 DEF CallSink, kept

LEMMA AuditExecutionStep ==
  ASSUME NEW c \in Calls, Inv, AuditExecution(c)
  PROVE  Inv'
<1>. DEFINE status == IF Succeeded(c) THEN "success" ELSE "failed"
<1>1. /\ pc[c] = "audit" /\ pc' = [pc EXCEPT ![c] = "emit"]
      /\ UNCHANGED <<env, snapshots, err, answer, tried, events, emissions,
                     queried, fresh>>
  BY DEF AuditExecution, At, Goto
<1>2. status \in {"success", "failed"} /\ CallSink(c, status) /\ Unaudited(c) /\ TypeOK
  BY <1>1 DEF AuditExecution, Inv, Ledger, InFacade
<1>. HIDE DEF status
<1>3. /\ sinkCalls' \in [Calls -> Nat]
      /\ record' \in [Calls -> [status : {"none", "success", "failed"},
                                question : Calls \cup {None}]]
      /\ sinkCalls'[c] = Audits
      /\ record'[c].status \in {"none", status}
      /\ \A d \in Calls \ {c} :
           sinkCalls'[d] = sinkCalls[d] /\ record'[d] = record[d]
  BY <1>2, SinkEffect
<1>4. TypeOK'
  BY <1>1, <1>2, <1>3 DEF TypeOK, Labels, env, snapshots
<1>5. Ledger(c)'
  BY <1>1, <1>2, <1>3
     DEF status, Succeeded, Inv, TypeOK, env, snapshots, Ledger, AtRest,
         InOrchestration, InFacade, Ended, Clean, Unaudited, AuditedAs,
         ToldTruly, FacadeFailed, Rejected, Audits, SinkUsable, Orchestrated
<1>6. ASSUME NEW d \in Calls, d # c  PROVE Ledger(d)'
  BY <1>1, <1>3, <1>6, Bystander DEF Inv, TypeOK, env, snapshots
<1>. QED  BY <1>4, <1>5, <1>6 DEF Inv

LEMMA EmitExecutionStep ==
  ASSUME NEW c \in Calls, Inv, EmitExecution(c)
  PROVE  Inv'
<1>1. /\ pc[c] = "emit" /\ emissions' = [emissions EXCEPT ![c] = @ + 1]
      /\ UNCHANGED <<env, snapshots, err, audits, events, queried, fresh>>
  BY DEF EmitExecution, At
<1>2. ASSUME NEW label \in Labels, NEW end \in Answers, NEW marks \in BOOLEAN,
             pc' = [pc EXCEPT ![c] = label],
             answer' = [answer EXCEPT ![c] = end],
             tried' = [tried EXCEPT ![c] = [audit |-> marks, observe |-> marks]],
             \/ /\ err[c] = "none" /\ label = "done" /\ ~marks
                /\ end \in {"query", "returned"}
             \/ err[c] # "none" /\ label = "done" /\ marks /\ end = "raised"
             \/ /\ err[c] # "none" /\ label = "rejected" /\ marks
                /\ end = "none" /\ Orchestrated(c)
      PROVE  Inv'
  <2>1. TypeOK'
    BY <1>1, <1>2 DEF Inv, TypeOK, env, snapshots, audits
  <2>2. Ledger(c)'
    <3>1. CASE err[c] = "none"
      BY <1>1, <1>2, <3>1
         DEF Inv, TypeOK, env, snapshots, audits, Ledger, AtRest,
             InOrchestration, InFacade, Ended, Clean, Unaudited, AuditedAs,
             ToldTruly, FacadeFailed, Rejected, Audits, SinkUsable, Orchestrated
    <3>2. CASE err[c] # "none" /\ marks = TRUE
      BY <1>1, <1>2, <3>2
         DEF Inv, TypeOK, env, snapshots, audits, Ledger, AtRest,
             InOrchestration, InFacade, Ended, Clean, Unaudited, AuditedAs,
             ToldTruly, FacadeFailed, Rejected, Audits, SinkUsable, Orchestrated
    <3>. QED  BY <1>2, <3>1, <3>2
  <2>3. ASSUME NEW d \in Calls, d # c  PROVE Ledger(d)'
    BY <1>1, <1>2, <2>3, Bystander DEF Inv, TypeOK, env, snapshots, audits
  <2>. QED  BY <2>1, <2>2, <2>3 DEF Inv
<1>3. /\ answer[c] = "none" /\ tried[c] = [audit |-> FALSE, observe |-> FALSE]
      /\ answer = [answer EXCEPT ![c] = "none"]
      /\ tried = [tried EXCEPT ![c] = [audit |-> FALSE, observe |-> FALSE]]
  BY <1>1 DEF Inv, TypeOK, Ledger, AtRest, InFacade
<1>4. CASE err[c] = "none"
  BY <1>2, <1>3, <1>4
     DEF EmitExecution, Succeeded, Answer, Goto, Labels, Answers
<1>5. CASE err[c] # "none" /\ Orchestrated(c)
  BY <1>2, <1>3, <1>5 DEF EmitExecution, Succeeded, Goto, Labels, Answers
<1>6. CASE err[c] # "none" /\ ~Orchestrated(c)
  BY <1>2, <1>3, <1>6
     DEF EmitExecution, Succeeded, Answer, Goto, Labels, Answers
<1>. QED  BY <1>4, <1>5, <1>6

LEMMA HandleErrorStep ==
  ASSUME NEW c \in Calls, Inv, HandleError(c)
  PROVE  Inv'
<1>1. TypeOK'
  BY DEF Inv, HandleError, At, MayFallBack, NextDuty, Answer, Goto, env,
         snapshots, audits, TypeOK, Labels, ErrorCodes, Answers, Permissions
<1>2. Ledger(c)'
  <2>1. AtRest(c)'
    BY LifecyclesDiffer
       DEF Inv, HandleError, At, MayFallBack, NextDuty, Answer, Goto, env,
           snapshots, audits, TypeOK, Ledger, AtRest, InOrchestration, InFacade,
           Ended, Clean, Unaudited, AuditedAs, ToldTruly, FacadeFailed,
           Rejected, Audits, SinkUsable, Orchestrated
  <2>2. InOrchestration(c)'
    BY LifecyclesDiffer
       DEF Inv, HandleError, At, MayFallBack, NextDuty, Answer, Goto, env,
           snapshots, audits, TypeOK, Ledger, AtRest, InOrchestration, InFacade,
           Ended, Clean, Unaudited, AuditedAs, ToldTruly, FacadeFailed,
           Rejected, Audits, SinkUsable, Orchestrated
  <2>3. InFacade(c)'
    BY LifecyclesDiffer
       DEF Inv, HandleError, At, MayFallBack, NextDuty, Answer, Goto, env,
           snapshots, audits, TypeOK, Ledger, AtRest, InOrchestration, InFacade,
           Ended, Clean, Unaudited, AuditedAs, ToldTruly, FacadeFailed,
           Rejected, Audits, SinkUsable, Orchestrated
  <2>4. Ended(c)'
    BY LifecyclesDiffer
       DEF Inv, HandleError, At, MayFallBack, NextDuty, Answer, Goto, env,
           snapshots, audits, TypeOK, Ledger, AtRest, InOrchestration, InFacade,
           Ended, Clean, Unaudited, AuditedAs, ToldTruly, FacadeFailed,
           Rejected, Audits, SinkUsable, Orchestrated
  <2>. QED  BY <2>1, <2>2, <2>3, <2>4 DEF Ledger
<1>3. ASSUME NEW d \in Calls, d # c  PROVE Ledger(d)'
  BY <1>3, Bystander
     DEF Inv, HandleError, NextDuty, Answer, Goto, env, snapshots, audits,
         TypeOK
<1>. QED  BY <1>1, <1>2, <1>3 DEF Inv

LEMMA AuditExternalRejectionStep ==
  ASSUME NEW c \in Calls, Inv, AuditExternalRejection(c)
  PROVE  Inv'
<1>1. /\ pc[c] = "external" /\ pc' = [pc EXCEPT ![c] = "observe"]
      /\ UNCHANGED <<env, snapshots, err, answer, tried, events, emissions,
                     queried, fresh>>
  BY DEF AuditExternalRejection, At, Goto
<1>2. CallSink(c, "failed") /\ Unaudited(c) /\ TypeOK
  BY <1>1 DEF AuditExternalRejection, Inv, Ledger, InOrchestration
<1>3. /\ sinkCalls' \in [Calls -> Nat]
      /\ record' \in [Calls -> [status : {"none", "success", "failed"},
                                question : Calls \cup {None}]]
      /\ sinkCalls'[c] = Audits
      /\ record'[c].status \in {"none", "failed"}
      /\ \A d \in Calls \ {c} :
           sinkCalls'[d] = sinkCalls[d] /\ record'[d] = record[d]
  BY <1>2, SinkEffect
<1>4. TypeOK'
  BY <1>1, <1>2, <1>3 DEF TypeOK, Labels, env, snapshots
<1>5. Ledger(c)'
  BY <1>1, <1>2, <1>3
     DEF Inv, TypeOK, env, snapshots, Ledger, AtRest, InOrchestration, InFacade,
         Ended, Clean, Unaudited, AuditedAs, ToldTruly, FacadeFailed, Rejected,
         Audits, SinkUsable, Orchestrated
<1>6. ASSUME NEW d \in Calls, d # c  PROVE Ledger(d)'
  BY <1>1, <1>3, <1>6, Bystander DEF Inv, TypeOK, env, snapshots
<1>. QED  BY <1>4, <1>5, <1>6 DEF Inv

LEMMA EmitExternalRejectionStep ==
  ASSUME NEW c \in Calls, Inv, EmitExternalRejection(c)
  PROVE  Inv'
<1>1. /\ pc[c] = "observe" /\ pc' = [pc EXCEPT ![c] = "done"]
      /\ answer' = [answer EXCEPT ![c] = "error"]
      /\ UNCHANGED <<env, snapshots, err, audits, queried, fresh>>
  BY DEF EmitExternalRejection, Observed, At, Answer, Goto
<1>2. CASE tried[c].observe
  <2>1. UNCHANGED <<tried, events, emissions>>
    BY <1>2 DEF EmitExternalRejection, Observed
  <2>2. TypeOK'
    BY <1>1, <2>1 DEF Inv, TypeOK, Labels, Answers, env, snapshots, audits
  <2>3. Ledger(c)'
    BY <1>1, <1>2, <2>1
       DEF Inv, TypeOK, env, snapshots, audits, Ledger, AtRest, InOrchestration,
           InFacade, Ended, Clean, Unaudited, AuditedAs, ToldTruly,
           FacadeFailed, Rejected, Audits, SinkUsable, Orchestrated
  <2>4. ASSUME NEW d \in Calls, d # c  PROVE Ledger(d)'
    BY <1>1, <2>1, <2>4, Bystander DEF Inv, TypeOK, env, snapshots, audits
  <2>. QED  BY <2>2, <2>3, <2>4 DEF Inv
<1>3. CASE ~tried[c].observe
  <2>1. /\ tried' = [tried EXCEPT ![c].observe = TRUE]
        /\ events' = [events EXCEPT ![c] = <<"rejected">>]
        /\ emissions' = [emissions EXCEPT ![c] = @ + 1]
    BY <1>3 DEF EmitExternalRejection, Observed
  <2>2. TypeOK'
    <3>1. /\ "done" \in Labels /\ "error" \in Answers
          /\ <<"rejected">> \in Lifecycles
      BY DEF Labels, Answers, Lifecycles
    <3>2. tried' \in [Calls -> [audit : BOOLEAN, observe : BOOLEAN]]
      BY <2>1, MarkedType DEF Inv, TypeOK
    <3>. QED  BY <1>1, <2>1, <3>1, <3>2 DEF Inv, TypeOK, env, snapshots, audits
  <2>3. Ledger(c)'
    BY <1>1, <1>3, <2>1
       DEF Inv, TypeOK, env, snapshots, audits, Ledger, AtRest, InOrchestration,
           InFacade, Ended, Clean, Unaudited, AuditedAs, ToldTruly,
           FacadeFailed, Rejected, Audits, SinkUsable, Orchestrated
  <2>4. ASSUME NEW d \in Calls, d # c  PROVE Ledger(d)'
    BY <1>1, <2>1, <2>4, Bystander DEF Inv, TypeOK, env, snapshots, audits
  <2>. QED  BY <2>2, <2>3, <2>4 DEF Inv
<1>. QED  BY <1>2, <1>3

\* The policy changes under every attempt; no ledger depends on it.
LEMMA ChangePolicyStep ==
  ASSUME Inv, ChangePolicy
  PROVE  Inv'
<1>. USE DEF ChangePolicy
<1>1. policy' \in PolicySpace /\ changes' \in 0..MaxChanges
  BY PolicyAssumption, BoundAssumption DEF Inv, TypeOK
<1>2. fresh' \in [Calls -> BOOLEAN]
  BY DEF Inv, TypeOK, Entitling
<1>3. TypeOK'
  BY <1>1, <1>2 DEF Inv, TypeOK, snapshots, audits
<1>4. ASSUME NEW d \in Calls  PROVE Ledger(d)'
  BY Bystander DEF Inv, snapshots, audits
<1>. QED  BY <1>3, <1>4 DEF Inv

-----------------------------------------------------------------------------
(* The invariants *)

LEMMA InvInit == Init => Inv
<1>. SUFFICES ASSUME Init PROVE Inv
  OBVIOUS
<1>1. TypeOK
  BY DeploymentAssumption, PolicyAssumption, BoundAssumption
     DEF Init, TypeOK, Labels, ErrorCodes, Answers, Surfaces, Lifecycles,
         NoInput, NoRecord
<1>2. ASSUME NEW c \in Calls  PROVE Ledger(c)
  BY DEF Init, Ledger, AtRest, InOrchestration, InFacade, Ended, Clean,
         Unaudited
<1>. QED  BY <1>1, <1>2 DEF Inv

LEMMA InvNext == Inv /\ [Next]_vars => Inv'
<1>. SUFFICES ASSUME Inv, [Next]_vars PROVE Inv'
  OBVIOUS
<1>1. CASE ChangePolicy
  BY <1>1, ChangePolicyStep
<1>2. ASSUME NEW c \in Calls, Ask(c) \/ CallFacade(c) \/ RefuseDebug(c)
      PROVE  Inv'
  BY <1>2, AskStep, CallFacadeStep, RefuseDebugStep
<1>3. ASSUME NEW c \in Calls, Orchestrate(c)  PROVE Inv'
  BY <1>3, ResolveEntryPermissionsStep, RouteFailsStep, RoutePlanStep,
     RouteHelpStep, ProviderEscapesStep, HandleErrorStep,
     AuditExternalRejectionStep, EmitExternalRejectionStep
     DEF Orchestrate
<1>4. ASSUME NEW c \in Calls, Facade(c)  PROVE Inv'
  BY <1>4, ResolveFacadePermissionsStep, ResolveAuditPolicyStep,
     ParsingEscapesStep, ValidateStep, PrepareStep, CompileStep, EvaluateStep, AuditExecutionStep,
     EmitExecutionStep
     DEF Facade
<1>5. CASE UNCHANGED vars
  <2>1. TypeOK'
    BY <1>5 DEF Inv, TypeOK, vars
  <2>2. ASSUME NEW d \in Calls  PROVE Ledger(d)'
    BY <1>5, Bystander DEF Inv, vars
  <2>. QED  BY <2>1, <2>2 DEF Inv
<1>. QED  BY <1>1, <1>2, <1>3, <1>4, <1>5 DEF Next, Step

LEMMA SpecInv == Spec => []Inv
BY InvInit, InvNext, PTL DEF Spec

\* Every variable keeps its type whatever the attempts do.
THEOREM TypeCorrect == Spec => []TypeOK
<1>1. Inv => TypeOK
  BY DEF Inv
<1>. QED  BY <1>1, SpecInv, PTL

\* What the sink kept of an orchestrated attempt bears its own question.
Asked(c) == Orchestrated(c) => record[c].question \in {c, None}

LEMMA AskedNext ==
  ASSUME Inv, \A c \in Calls : Asked(c), Next
  PROVE  \A c \in Calls : Asked(c)'
<1>. SUFFICES ASSUME NEW d \in Calls PROVE Asked(d)'
  OBVIOUS
<1>0. Asked(d) /\ Ledger(d)
  BY DEF Inv
<1>1. ASSUME record'[d] = record[d], input'[d] = input[d]  PROVE Asked(d)'
  BY <1>0, <1>1 DEF Asked, Orchestrated
<1>2. ASSUME NEW c \in Calls, Ask(c) \/ CallFacade(c) \/ RefuseDebug(c)
      PROVE  Asked(d)'
  <2>1. record' = record /\ pc[c] = "idle"
    BY <1>2 DEF Ask, CallFacade, RefuseDebug, Start, audits
  <2>2. CASE d = c
    BY <1>0, <2>1, <2>2 DEF Ledger, AtRest, Unaudited, NoRecord, Asked
  <2>3. CASE d # c
    BY <1>1, <1>2, <2>1, <2>3
       DEF Inv, TypeOK, Ask, CallFacade, RefuseDebug, Start
  <2>. QED  BY <2>2, <2>3
<1>3. ASSUME NEW c \in Calls, AuditExecution(c) \/ AuditExternalRejection(c)
      PROVE  Asked(d)'
  <2>1. UNCHANGED input /\ pc[c] \in {"audit", "external"}
    BY <1>3 DEF AuditExecution, AuditExternalRejection, At, snapshots
  <2>2. PICK status \in {"success", "failed"} : CallSink(c, status)
    BY <1>3 DEF AuditExecution, AuditExternalRejection
  <2>3. CASE UNCHANGED record
    BY <1>1, <2>1, <2>3
  <2>4. CASE record' = [record EXCEPT ![c] =
               [status |-> status,
                question |-> IF deployment.content THEN BoundQuestion(c)
                             ELSE None]]
    <3>1. CASE d = c
      BY <2>1, <2>4, <3>1 DEF Inv, TypeOK, Asked, Orchestrated, BoundQuestion
    <3>2. CASE d # c
      BY <1>1, <2>1, <2>4, <3>2 DEF Inv, TypeOK
    <3>. QED  BY <3>1, <3>2
  <2>. QED  BY <2>2, <2>3, <2>4 DEF CallSink, audits
<1>4. ASSUME NEW c \in Calls,
             \/ ResolveEntryPermissions(c) \/ RouteFails(c) \/ RoutePlan(c)
             \/ RouteHelp(c) \/ ProviderEscapes(c) \/ HandleError(c)
             \/ EmitExternalRejection(c) \/ ResolveFacadePermissions(c)
             \/ ResolveAuditPolicy(c) \/ ParsingEscapes(c) \/ Validate(c)
             \/ Prepare(c) \/ Compile(c) \/ Evaluate(c) \/ EmitExecution(c)
      PROVE  Asked(d)'
  <2>1. UNCHANGED <<record, input>>
    BY <1>4
       DEF ResolveEntryPermissions, RouteFails, RoutePlan, RouteHelp,
           ProviderEscapes, HandleError, EmitExternalRejection,
           ResolveFacadePermissions, ResolveAuditPolicy, ParsingEscapes,
           Validate, Prepare, Compile, Evaluate, EmitExecution, RouteUnchanged,
           FacadeUnchanged, snapshots, audits
  <2>. QED  BY <1>1, <2>1
<1>5. CASE ChangePolicy
  BY <1>1, <1>5 DEF ChangePolicy, snapshots, audits
<1>. QED  BY <1>2, <1>3, <1>4, <1>5 DEF Next, Step, Orchestrate, Facade

\* The sink is called exactly once for each attempt that ends with a result or
\* an error response, and never twice, across facade and orchestration; what it
\* keeps of an orchestrated attempt bears no other attempt's question.
THEOREM AuditHappensOnce == Spec => []AuditedOnce
<1>1. ASSUME Inv, NEW c \in Calls
      PROVE  /\ sinkCalls[c] <= Audits
             /\ SinkUsable /\ pc[c] = "done"
                  /\ \/ answer[c] \in {"query", "returned", "error"}
                     \/ held[c] # None /\ err[c] # "foreign"
                => sinkCalls[c] = 1
  <2>1. Ledger(c) /\ pc[c] \in Labels /\ answer[c] \in Answers
    BY <1>1 DEF Inv, TypeOK
  <2>2. sinkCalls[c] \in {0, Audits}
    BY <2>1
       DEF Ledger, AtRest, InOrchestration, InFacade, Ended, Unaudited,
           AuditedAs, FacadeFailed, Labels, Answers
  <2>3. SinkUsable /\ pc[c] = "done"
          /\ \/ answer[c] \in {"query", "returned", "error"}
             \/ held[c] # None /\ err[c] # "foreign"
        => sinkCalls[c] = 1
    BY <2>1
       DEF Ledger, Ended, AuditedAs, FacadeFailed, Rejected, Audits, Answers
  <2>. QED  BY <2>2, <2>3 DEF Audits
<1>. DEFINE Own == \A c \in Calls : Asked(c)
<1>2. Inv /\ Own => AuditedOnce
  BY <1>1 DEF AuditedOnce, Audits, Asked
<1>3. Init => Own
  BY DEF Init, Asked, NoRecord
<1>4. Inv /\ Own /\ [Next]_vars => Own'
  <2>1. ASSUME Own, UNCHANGED vars  PROVE Own'
    BY <2>1 DEF Asked, Orchestrated, vars
  <2>. QED  BY <2>1, AskedNext
<1>. QED  BY <1>2, <1>3, <1>4, SpecInv, PTL DEF Spec

\* A batch reaches observability only after the attempt's audit.
THEOREM AuditComesFirst == Spec => []AuditBeforeObservation
<1>1. ASSUME Inv, NEW c \in Calls, emissions[c] > 0, SinkUsable
      PROVE  \/ sinkCalls[c] = 1
             \/ ~Orchestrated(c) /\ held[c] = None /\ answer[c] = "raised"
  <2>1. Ledger(c) /\ pc[c] \in Labels /\ answer[c] \in Answers
    BY <1>1 DEF Inv, TypeOK
  <2>. QED  BY <1>1, <2>1 DEF Ledger, AtRest, InOrchestration, InFacade, Ended,
            Clean, AuditedAs, FacadeFailed, Rejected, Audits, Labels, Answers
<1>2. Inv => AuditBeforeObservation
  BY <1>1 DEF AuditBeforeObservation
<1>. QED  BY <1>2, SpecInv, PTL

\* One attempt, one batch, and it agrees with the caller's answer, with what was
\* evaluated and with the audit record.
THEOREM LifecycleIsOne == Spec => []OneLifecycle
<1>1. ASSUME Inv, NEW c \in Calls
      PROVE  /\ emissions[c] <= 1
             /\ events[c] = <<"rejected">> => ~queried[c] /\ record[c].status # "success"
             /\ emissions[c] = 1 /\ events[c] = <<"accepted", "succeeded">>
                  <=> answer[c] \in {"query", "returned"}
             /\ record[c].status = "success" => Succeeded(c) /\ queried[c]
  <2>1. Ledger(c) /\ pc[c] \in Labels /\ answer[c] \in Answers
    BY <1>1 DEF Inv, TypeOK
  <2>. USE <2>1, LifecyclesDiffer DEF Ledger, AtRest, InOrchestration, InFacade,
       Ended, Clean, Unaudited, AuditedAs, FacadeFailed, Rejected, ToldTruly,
       Labels, Answers, NoRecord
  <2>2. emissions[c] <= 1
    OBVIOUS
  <2>3. events[c] = <<"rejected">> => ~queried[c] /\ record[c].status # "success"
    OBVIOUS
  <2>4. emissions[c] = 1 /\ events[c] = <<"accepted", "succeeded">>
          <=> answer[c] \in {"query", "returned"}
    OBVIOUS
  <2>5. record[c].status = "success" => Succeeded(c) /\ queried[c]
    BY DEF Succeeded
  <2>. QED  BY <2>2, <2>3, <2>4, <2>5
<1>2. Inv => OneLifecycle
  BY <1>1 DEF OneLifecycle
<1>. QED  BY <1>2, SpecInv, PTL

-----------------------------------------------------------------------------
(***************************************************************************)
(* Authorisation: a second invariant, on top of Inv.                       *)
(***************************************************************************)

\* What an attempt that may still evaluate a query owes to the policy: an open
\* resource or a permission it met since its facade call began.
Entitled(c) ==
  /\ pc[c] \in {"context", "policy", "validate"} /\ Entitling(policy) => fresh[c]
  /\ pc[c] \in {"policy", "validate"} /\ held[c] = "granted" => fresh[c]
  /\ pc[c] \in {"prepare", "compile", "evaluate"} => fresh[c]
  /\ queried[c] => fresh[c]

\* An attempt that neither enters the facade nor advances in it keeps its title.
LEMMA EntitledKept ==
  ASSUME NEW c \in Calls, Entitled(c), UNCHANGED policy,
         fresh'[c] = fresh[c], held'[c] = held[c], queried'[c] = queried[c],
         \/ pc'[c] = pc[c]
         \/ pc'[c] \notin {"context", "policy", "validate", "prepare", "compile",
                           "evaluate"}
  PROVE  Entitled(c)'
BY DEF Entitled, Entitling

LEMMA EntitledNext ==
  ASSUME Inv, \A c \in Calls : Entitled(c), Next
  PROVE  \A c \in Calls : Entitled(c)'
<1>. SUFFICES ASSUME NEW d \in Calls PROVE Entitled(d)'
  OBVIOUS
<1>0. /\ Entitled(d) /\ Ledger(d)
  BY DEF Inv
<1>1. CASE ChangePolicy
  BY <1>0, <1>1 DEF Inv, TypeOK, ChangePolicy, Entitled, snapshots
<1>2. ASSUME NEW c \in Calls, CallFacade(c) \/ RoutePlan(c)  PROVE Entitled(d)'
  <2>1. CASE d = c
    <3>1. ~queried[c] /\ queried' = queried /\ UNCHANGED policy /\ pc'[c] = "context"
      BY <1>0, <1>2, <2>1
         DEF Inv, TypeOK, Ledger, AtRest, InOrchestration, Clean, CallFacade,
             RoutePlan, At, Start, EnterFacade, RouteUnchanged, Goto, env
    <3>2. fresh'[c] = Entitling(policy)
      BY <1>2 DEF Inv, TypeOK, CallFacade, RoutePlan, EnterFacade
    <3>. QED  BY <2>1, <3>1, <3>2 DEF Entitled, Entitling
  <2>2. CASE d # c
    BY <1>0, <1>2, <2>2, EntitledKept
       DEF Inv, TypeOK, CallFacade, RoutePlan, Start, EnterFacade,
           RouteUnchanged, Goto, env, snapshots
  <2>. QED  BY <2>1, <2>2
<1>3. ASSUME NEW c \in Calls, Ask(c) \/ RefuseDebug(c)  PROVE Entitled(d)'
  BY <1>0, <1>3, EntitledKept
     DEF Inv, TypeOK, Ask, RefuseDebug, Start, Answer, Goto, env
<1>4. ASSUME NEW c \in Calls,
             \/ ResolveEntryPermissions(c) \/ RouteFails(c) \/ RouteHelp(c)
             \/ ProviderEscapes(c) \/ HandleError(c)
             \/ AuditExternalRejection(c) \/ EmitExternalRejection(c)
             \/ ParsingEscapes(c)
      PROVE  Entitled(d)'
  BY <1>0, <1>4, EntitledKept
     DEF Inv, TypeOK, ResolveEntryPermissions, RouteFails, RouteHelp,
         ProviderEscapes, ParsingEscapes, HandleError, NextDuty, AuditExternalRejection,
         EmitExternalRejection, RouteUnchanged, Fail, Answer, Goto, env,
         snapshots
<1>5. ASSUME NEW c \in Calls, AuditExecution(c) \/ EmitExecution(c)
      PROVE  Entitled(d)'
  BY <1>0, <1>5, EntitledKept
     DEF Inv, TypeOK, AuditExecution, EmitExecution, Answer, Goto, env, snapshots
<1>6. ASSUME NEW c \in Calls, ResolveFacadePermissions(c)  PROVE Entitled(d)'
  BY <1>0, <1>6, EntitledKept
     DEF Inv, TypeOK, ResolveFacadePermissions, Current, RejectContext, Fail,
         Goto, At, Entitled, Entitling, env
<1>7. ASSUME NEW c \in Calls, ResolveAuditPolicy(c)  PROVE Entitled(d)'
  BY <1>0, <1>7, EntitledKept
     DEF Inv, TypeOK, ResolveAuditPolicy, RejectContext, Fail, Goto, At,
         Entitled, Entitling, env, snapshots
<1>8. ASSUME NEW c \in Calls, Validate(c)  PROVE Entitled(d)'
  BY <1>0, <1>8, EntitledKept
     DEF Inv, TypeOK, Validate, Visible, FacadeUnchanged, Fail, Goto, At,
         Entitled, Entitling, env, snapshots
<1>9. ASSUME NEW c \in Calls, Prepare(c) \/ Compile(c) \/ Evaluate(c)
      PROVE  Entitled(d)'
  BY <1>0, <1>9, EntitledKept
     DEF Inv, TypeOK, Prepare, Compile, Evaluate, FailExecution,
         FacadeUnchanged, Fail, Goto, At, Entitled, env, snapshots
<1>. QED  BY <1>1, <1>2, <1>3, <1>4, <1>5, <1>6, <1>7, <1>8, <1>9
          DEF Next, Step, Orchestrate, Facade

\* No query runs on what the orchestration read before planning alone: since the
\* facade began, the resource was open or the permission granted at some moment.
THEOREM AuthorizationIsFresh == Spec => []FreshAuthorization
<1>. DEFINE Titles == \A c \in Calls : Entitled(c)
<1>1. Init => Titles
  BY DEF Init, Entitled
<1>2. Inv /\ Titles /\ [Next]_vars => Titles'
  <2>1. ASSUME Titles, UNCHANGED vars  PROVE Titles'
    BY <2>1 DEF Entitled, Entitling, vars
  <2>. QED  BY <2>1, EntitledNext
<1>3. Titles => FreshAuthorization
  BY DEF Entitled, FreshAuthorization
<1>. QED  BY <1>1, <1>2, <1>3, SpecInv, PTL DEF Spec

-----------------------------------------------------------------------------
(* Help and finality *)

\* A help answer that hides no failure left no query, no audit record and no
\* observation behind: the router or the provider gave it before the facade.
THEOREM RoutedHelpCostsNothing == Spec => []RoutedHelpIsInert
<1>1. ASSUME Inv, NEW c \in Calls, answer[c] = "capabilities", Succeeded(c)
      PROVE  ~queried[c] /\ sinkCalls[c] = 0 /\ emissions[c] = 0
  BY <1>1 DEF Inv, Ledger, AtRest, Ended, Clean, Unaudited, FacadeFailed,
              Rejected, Succeeded
<1>2. Inv => RoutedHelpIsInert
  BY <1>1 DEF RoutedHelpIsInert
<1>. QED  BY <1>2, SpecInv, PTL

\* The catalog is never the answer to a denied attempt, by either permission
\* read: errors are raised before there is an answer, and the handler looks.
THEOREM DenialGetsNoHelp == Spec => []NoHelpAfterDenial
<1>1. Init => NoHelpAfterDenial
  BY DEF Init, NoHelpAfterDenial
<1>2. Inv /\ NoHelpAfterDenial /\ [Next]_vars => NoHelpAfterDenial'
  <2>. SUFFICES ASSUME Inv, NoHelpAfterDenial, [Next]_vars, NEW d \in Calls,
                       err'[d] = "denied"
                PROVE  answer'[d] # "capabilities"
    BY DEF NoHelpAfterDenial
  <2>0. /\ err[d] = "denied" => answer[d] # "capabilities"
        /\ pc[d] # "done" => answer[d] = "none"
        /\ pc[d] \in {"idle", "route"} => err[d] = "none"
    BY DEF NoHelpAfterDenial, Inv, Ledger, AtRest, InOrchestration
  <2>1. CASE ChangePolicy \/ UNCHANGED vars
    BY <2>0, <2>1 DEF ChangePolicy, vars
  <2>2. ASSUME NEW c \in Calls, Ask(c) \/ CallFacade(c) \/ RefuseDebug(c)
        PROVE  answer'[d] # "capabilities"
    BY <2>0, <2>2 DEF Inv, TypeOK, Ask, CallFacade, RefuseDebug, Start, Answer
  <2>3. ASSUME NEW c \in Calls,
               \/ ResolveEntryPermissions(c) \/ RouteFails(c) \/ RoutePlan(c)
               \/ RouteHelp(c) \/ ProviderEscapes(c) \/ ParsingEscapes(c)
        PROVE  answer'[d] # "capabilities"
    BY <2>0, <2>3
       DEF Inv, TypeOK, ResolveEntryPermissions, RouteFails, RoutePlan, RouteHelp,
           ProviderEscapes, ParsingEscapes, Fail, Answer, At
  <2>4. ASSUME NEW c \in Calls,
               HandleError(c) \/ AuditExternalRejection(c) \/ EmitExternalRejection(c)
        PROVE  answer'[d] # "capabilities"
    BY <2>0, <2>4
       DEF Inv, TypeOK, HandleError, MayFallBack, AuditExternalRejection,
           EmitExternalRejection, Answer
  <2>5. ASSUME NEW c \in Calls, ResolveFacadePermissions(c) \/ ResolveAuditPolicy(c)
        PROVE  answer'[d] # "capabilities"
    BY <2>0, <2>5
       DEF Inv, TypeOK, ResolveFacadePermissions, ResolveAuditPolicy,
           RejectContext, Fail, At
  <2>6. ASSUME NEW c \in Calls,
               Validate(c) \/ Prepare(c) \/ Compile(c) \/ Evaluate(c)
        PROVE  answer'[d] # "capabilities"
    BY <2>0, <2>6
       DEF Inv, TypeOK, Validate, Prepare, Compile, Evaluate, FailExecution, Fail,
           FacadeUnchanged, At
  <2>7. ASSUME NEW c \in Calls, AuditExecution(c) \/ EmitExecution(c)
        PROVE  answer'[d] # "capabilities"
    BY <2>0, <2>7 DEF Inv, TypeOK, AuditExecution, EmitExecution, Answer, At
  <2>. QED  BY <2>1, <2>2, <2>3, <2>4, <2>5, <2>6, <2>7
            DEF Next, Step, Orchestrate, Facade
<1>. QED  BY <1>1, <1>2, SpecInv, PTL DEF Spec

\* What one step may do to what an attempt has told the outside.
Final(c) ==
  /\ sinkCalls'[c] >= sinkCalls[c] /\ emissions'[c] >= emissions[c]
  /\ emissions[c] > 0 => events'[c] = events[c]
  /\ record[c] # NoRecord => record'[c] = record[c]

\* No step takes back or rewrites a sink call, a record or a batch: each is
\* written at a label where the ledger says it is still empty.
THEOREM EffectsStayFinal == Spec => EffectsAreFinal
<1>1. ASSUME Inv, Next, NEW d \in Calls  PROVE Final(d)
  <2>0. Ledger(d) /\ sinkCalls[d] \in Nat /\ emissions[d] \in Nat
    BY <1>1 DEF Inv, TypeOK
  <2>. USE <2>0
  <2>1. CASE ChangePolicy
    BY <2>1 DEF ChangePolicy, audits, Final
  <2>2. ASSUME NEW c \in Calls, Ask(c) \/ CallFacade(c) \/ RefuseDebug(c)
        PROVE  Final(d)
    BY <2>2 DEF Ask, CallFacade, RefuseDebug, Start, audits, Final
  <2>3. ASSUME NEW c \in Calls,
               \/ ResolveEntryPermissions(c) \/ RouteFails(c) \/ RoutePlan(c)
               \/ RouteHelp(c) \/ ProviderEscapes(c) \/ ParsingEscapes(c)
               \/ HandleError(c)
        PROVE  Final(d)
    BY <2>3
       DEF ResolveEntryPermissions, RouteFails, RoutePlan, RouteHelp,
           ProviderEscapes, ParsingEscapes, HandleError, RouteUnchanged, audits, Final
  <2>4. ASSUME NEW c \in Calls, AuditExternalRejection(c)  PROVE Final(d)
    <3>1. CallSink(c, "failed") /\ Unaudited(c) /\ UNCHANGED <<events, emissions>>
      BY <1>1, <2>4 DEF Inv, AuditExternalRejection, At, Ledger, InOrchestration
    <3>2. /\ sinkCalls'[c] = Audits
          /\ \A e \in Calls \ {c} : sinkCalls'[e] = sinkCalls[e] /\ record'[e] = record[e]
      BY <1>1, <3>1, SinkEffect DEF Inv
    <3>3. CASE d = c
      BY <3>1, <3>2, <3>3 DEF Audits, Unaudited, Final
    <3>4. CASE d # c
      BY <3>1, <3>2, <3>4 DEF Final
    <3>. QED  BY <3>3, <3>4
  <2>5. ASSUME NEW c \in Calls, EmitExternalRejection(c)  PROVE Final(d)
    <3>1. UNCHANGED <<sinkCalls, record>>
      BY <2>5 DEF EmitExternalRejection, audits
    <3>2. CASE Observed(c)
      BY <2>5, <3>1, <3>2 DEF EmitExternalRejection, Final
    <3>3. CASE ~Observed(c)
      <4>1. emissions[c] = 0
        BY <1>1, <2>5, <3>3
           DEF Inv, EmitExternalRejection, Observed, At, Ledger, InOrchestration,
               FacadeFailed, Rejected, Clean
      <4>2. /\ events' = [events EXCEPT ![c] = <<"rejected">>]
            /\ emissions' = [emissions EXCEPT ![c] = @ + 1]
        BY <2>5, <3>3 DEF EmitExternalRejection
      <4>. QED  BY <1>1, <3>1, <4>1, <4>2 DEF Inv, TypeOK, Final
    <3>. QED  BY <3>2, <3>3
  <2>6. ASSUME NEW c \in Calls, ResolveFacadePermissions(c) \/ ResolveAuditPolicy(c)
        PROVE  Final(d)
    BY <1>1, <2>6
       DEF Inv, TypeOK, ResolveFacadePermissions, ResolveAuditPolicy,
           RejectContext, At, Ledger, InFacade, Clean, audits, Final
  <2>7. ASSUME NEW c \in Calls,
               Validate(c) \/ Prepare(c) \/ Compile(c) \/ Evaluate(c)
        PROVE  Final(d)
    BY <1>1, <2>7
       DEF Inv, TypeOK, Validate, Prepare, Compile, Evaluate, FailExecution,
           Observe, FacadeUnchanged, At, Ledger, InFacade, Clean, audits, Final
  <2>8. ASSUME NEW c \in Calls, AuditExecution(c)  PROVE Final(d)
    <3>1. PICK status \in {"success", "failed"} : CallSink(c, status)
      BY <2>8 DEF AuditExecution
    <3>2. Unaudited(c) /\ UNCHANGED <<events, emissions>>
      BY <1>1, <2>8 DEF Inv, AuditExecution, At, Ledger, InFacade
    <3>3. /\ sinkCalls'[c] = Audits
          /\ \A e \in Calls \ {c} : sinkCalls'[e] = sinkCalls[e] /\ record'[e] = record[e]
      BY <1>1, <3>1, <3>2, SinkEffect DEF Inv
    <3>4. CASE d = c
      BY <3>2, <3>3, <3>4 DEF Audits, Unaudited, Final
    <3>5. CASE d # c
      BY <3>2, <3>3, <3>5 DEF Final
    <3>. QED  BY <3>4, <3>5
  <2>9. ASSUME NEW c \in Calls, EmitExecution(c)  PROVE Final(d)
    BY <1>1, <2>9 DEF Inv, TypeOK, EmitExecution, audits, Final
  <2>. QED  BY <1>1, <2>1, <2>2, <2>3, <2>4, <2>5, <2>6, <2>7, <2>8, <2>9
            DEF Next, Step, Orchestrate, Facade
<1>2. ASSUME Inv, [Next]_vars
      PROVE  [\A c \in Calls : Final(c)]_vars
  BY <1>1, <1>2
<1>3. [][\A c \in Calls : Final(c)]_vars => EffectsAreFinal
  BY DEF EffectsAreFinal, Final
<1>4. Inv /\ [Next]_vars => [\A c \in Calls : Final(c)]_vars
  BY <1>2
<1>. QED  BY <1>3, <1>4, SpecInv, PTL DEF Spec

=============================================================================

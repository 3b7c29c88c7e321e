-------------------------- MODULE MCQueryLifecycle --------------------------
(* Small instances of QueryLifecycle: two attempts, concurrent or nested. *)
EXTENDS QueryLifecycle, TLC

\* A live backend with each kind of audit sink, and the dummy backend.
AuditedDeployments ==
  {[audit |-> a, content |-> TRUE, live |-> l, aware |-> TRUE] :
     a \in {"database", "custom"}, l \in BOOLEAN}

\* Audit switched off or misconfigured, content retention off, a naive clock.
DegradedDeployments ==
  {[audit |-> "disabled", content |-> TRUE, live |-> TRUE, aware |-> TRUE],
   [audit |-> "invalid", content |-> TRUE, live |-> TRUE, aware |-> TRUE],
   [audit |-> "custom", content |-> FALSE, live |-> TRUE, aware |-> TRUE],
   [audit |-> "custom", content |-> TRUE, live |-> FALSE, aware |-> FALSE]}

AllDeployments == AuditedDeployments \cup DegradedDeployments

LiveCustom ==
  {[audit |-> "custom", content |-> TRUE, live |-> TRUE, aware |-> TRUE]}

\* Everything a policy can be, and the four that tell the nested cases apart.
AllPolicies == PolicySpace
KeyPolicies ==
  {[perm |-> "granted", catalog |-> "restricted"],
   [perm |-> "revoked", catalog |-> "restricted"],
   [perm |-> "broken", catalog |-> "open"],
   [perm |-> "granted", catalog |-> "absent"]}

=============================================================================

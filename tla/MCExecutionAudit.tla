-------------------------- MODULE MCExecutionAudit --------------------------
(* Model-checking instance of ExecutionAudit. *)
EXTENDS ExecutionAudit, TLC

CONSTANTS read, job, alice, bob

\* The one peer is admitted for everything, for less, or as another principal;
\* withdraw_peer makes it unknown.
Table(admitted, principal, grants) ==
    [peer \in Peer |-> [admitted |-> admitted, principal |-> principal, grants |-> grants]]
HostPolicies ==
    {Table(TRUE, alice, {read, job}), Table(TRUE, alice, {read}), Table(TRUE, bob, {read})}

\* Principals are interchangeable where no peer is admitted as one of them.
Symmetry == Permutations(Principal)
=============================================================================

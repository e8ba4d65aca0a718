-------------------------- MODULE MCAuditWorkflow --------------------------
(* AuditWorkflow on small instances. *)
EXTENDS AuditWorkflow, TLC

Slots == Permutations(Auditors) \cup Permutations(Requests) \cup Permutations(Retainers)
=============================================================================

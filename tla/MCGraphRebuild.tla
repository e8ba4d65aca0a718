--------------------------- MODULE MCGraphRebuild ---------------------------
(* GraphRebuild on small instances. *)
EXTENDS GraphRebuild, TLC

Form(fabric, site, incremental) ==
    [fabric |-> fabric, site |-> site, incremental |-> incremental]

\* The job and an execution of a plan; the pages of a fabric; the refresh of a site.
Callers == {Form(FALSE, FALSE, FALSE), Form(TRUE, FALSE, FALSE), Form(TRUE, TRUE, TRUE)}
Refreshes == {Form(TRUE, FALSE, FALSE), Form(TRUE, TRUE, TRUE)}

\* Created as a rebuild without a scope would create it, and with a site and a policy.
Onboardings == {DefaultSettings, [restricted |-> TRUE, policy |-> TRUE]}

Symmetric == Permutations(Builds)
=============================================================================
